---- MODULE Spec2Model ----
(***************************************************************************)
(* State-machine model of two subsystems of xine-lib:                      *)
(*   - the plugin catalog of src/xine-engine/load_plugins.c (decoder       *)
(*     dispatch maps, reference counts, garbage collection, the user       *)
(*     priority callback), specification Spec, and its lock discipline,    *)
(*     specification SpecLock;                                             *)
(*   - the network buffer controller of src/xine-engine/net_buf_ctrl.c     *)
(*     (delay agent, speed requests, teardown), specifications SpecNbc     *)
(*     and SpecNbcFair.                                                    *)
(***************************************************************************)
EXTENDS Integers, Sequences, FiniteSets, TLC

(***************************************************************************)
(* Bounds of the model.                                                    *)
(***************************************************************************)
\* number of decoder nodes in the catalog
NumNodes == 2
\* length of one row of a decoder map (PLUGINS_PER_TYPE of the engine, scaled)
PLUGINS_PER_TYPE == 2
\* decoder instances handed out and not yet disposed, over all nodes
MaxInst == 2
\* largest user priority a configuration change sets
MaxUserPrio == 1
\* delay threads that can exist at once before pthread_create must fail
MaxThreads == 2
\* consumers of one stream that can hold the buffer controller
MaxRefs == 2
\* buffers that the two queues hand to the callbacks in one run
MaxCalls == 6
\* and beside the consumers that take and drop the controller
MaxCloseCalls == 4
\* slots of the fill history (NBC_HSIZE_NUM = 1 << 10 in the engine, scaled)
NBC_HSIZE_NUM == 2
\* largest fill level the history holds (255 in the engine, scaled)
LevelMax == 5
\* pts per fill level (90000 / 16 in the engine, scaled)
LevelUnit == 2
\* controllers that are created for one stream in a run
MaxCtl == 3
\* buffers of a queue (fifo->buffer_pool_capacity)
Capacity == 100
\* audio fill below which a dry audio output counts as a lost signal (1000
\* in the engine, scaled)
DryMark == 1
\* the most that the fill rises from one put to the next in the scenario of
\* a filling live queue
MaxRise == 3
\* speed requests that are counted in that scenario
MaxReq == 6
\* DEFAULT_HIGH_WATER_MARK in the unit of the fifo lengths compared with it
\* (5000 ms in the engine, scaled)
HighWaterMark == 2
\* the largest buffer_pool_capacity / num_default of a queue
MaxFactor == 2
\* entry->num_default of engine.buffers.video_num_buffers and of
\* engine.buffers.audio_num_buffers (scaled)
NumDefault == 2
\* the largest step of the pts that nbc_put_cb and nbc_get_cb take for real:
\* 220000 ticks, scaled
MaxDiff == 2
\* the wrap of the mpeg pts: (uint64_t)1 << 33 ticks, scaled
PtsWrap == 8
\* the fill_pts and the pos_pts that a run follows stay within this
FillCap == 3
\* the blocks of a cache file and the field lines of a block
MaxBlocks == 2
MaxBlockLines == 3
\* the ceiling of catalog->plugin_count (PLUGIN_MAX of the engine, scaled)
PLUGIN_MAX == 3
\* the ceiling of catalog->decoder_count (DECODER_MAX of the engine, scaled)
DECODER_MAX == 2
\* plugin_info_t entries of one file or of one xine_register_plugins call
MaxInfos == 2
\* changes of the plugin directory (a file written, touched, removed) that
\* a run follows
MaxChanges == 2
\* nodes in a catalog that is written to the cache file and read back
MaxCacheNodes == 4
\* nodes in a catalog whose save is followed call by call
MaxSaveNodes == 2
\* the cache_catalog_version values of the cache files that are found
MinVersion == 3
MaxVersion == 6
\* "#define FULL_FIFO_MARK 5 /* buffers free */"
FULL_FIFO_MARK == 5

NULL == 0
Nodes == 1 .. NumNodes
\* stream types with a row in the decoder maps (DECODER_MAX rows in the engine)
StreamTypes == {1, 2}
\* plugin files on disk; a node with file NULL is statically linked
Files == {1}
\* plugin_lists[] is walked in this order (PLUGIN_AUDIO_DECODER = 3,
\* PLUGIN_VIDEO_DECODER = 4, PLUGIN_SPU_DECODER = 5)
KindSeq == <<"audio", "video", "spu">>
Kinds == {"audio", "video", "spu"}
Slots == 0 .. (PLUGINS_PER_TYPE - 1)

VARIABLES
  info,          \* node -> plugin_info_t: type, supported_types, priority, file
  plugin_lists,  \* kind -> sorted array of nodes (falling node priority)
  decoder_map,   \* kind -> stream type -> slot -> node or NULL
  priority,      \* node -> node.priority (effective priority)
  ref,           \* node -> node.ref
  plugin_class,  \* node -> BOOLEAN, node.plugin_class != NULL
  lib_handle,    \* file -> BOOLEAN, file.lib_handle != NULL
  file_ref,      \* file -> file.ref
  no_unload,     \* file -> file.no_unload
  inst,          \* node -> decoder instances of that node the callers hold
  failed,        \* the first <<stream type, node>> whose open_plugin returned
                 \* NULL, watched from then on (history)
  last,          \* the candidates the last step tried, if it was a lookup
  crashed        \* the process died on an invalid pointer

catVars == <<info, plugin_lists, decoder_map, priority, ref, plugin_class,
             lib_handle, file_ref, no_unload, inst, failed, last, crashed>>

\* the catalog lock and the two threads of specification SpecLock
VARIABLES
  lock,          \* owner of catalog->lock: "none" or "lookup"
  lk,            \* the thread inside _x_get_*_decoder: pc, kind, type, slot i,
                 \* the nodes it has tried and whether it tried one twice
  cb             \* the thread inside _decoder_priority_cb: pc, node, user_prio

lockVars == <<lock, lk, cb>>

\* the network buffer controller of one stream (net_buf_ctrl.c)
VARIABLES
  nbc,           \* xine_nbc_t: owner of its mutex, enabled, buffering,
                 \* dvbspeed, speed_val, the callers whose speed_change
                 \* snapshot is the current one, the counter's nbc_refs and
                 \* whether the object is live, has its mutex destroyed or
                 \* is freed
  delay,         \* this->delay: state, thread handle, whether now >= until
  fifo,          \* queue -> its lock is held by a caller, callbacks registered
  clock,         \* the stream's fine speed as _x_set_fine_speed left it
  cbp,           \* queue -> the thread inside a callback of that queue
  thr,           \* thread id -> the delay thread with that handle
  cl,            \* the thread inside xine_nbc_close after the last unref
  nh             \* history: callbacks called so far, a join of a thread that
                 \* is no more, a use of the controller after its mutex was
                 \* destroyed, the process has ended

nbcVars == <<nbc, delay, fifo, clock, cbp, thr, cl, nh>>

VARIABLES
  \* stats of the controller: the history of fill levels, the count of
  \* history entries per level, the recent minimum; ret is what the last
  \* call of nbc_stats_add gave back
  stats,
  \* the stream's counter (nbc_refs, nbc), the controllers that were
  \* created for the stream, the callbacks registered on its queues and
  \* what each consumer of the stream is doing
  lc,
  \* the fields of the controller that the callbacks read and write, the
  \* speeds that the last call requested and what the last call was
  ctl,
  \* a live video queue that fills: the fill of the last put, the dvbspeed
  \* states so far, the number of speed requests and of state changes
  hy,
  \* the xine_fifo_info_t of one queue: last_in_pts, last_out_pts, pos_pts,
  \* fill_pts, and what the last callback did with the pts of its buffer
  fi,
  \* the catalog that the registrations build: plugin_count, decoder_count,
  \* the sorted plugin lists, and the status that _insert_node gave for each
  \* entry of the last call
  rg,
  \* the plugin scan of a process: the plugin directory, the cache file, the
  \* cache_list and the file_list of the catalog, the directory entries that
  \* collect_plugins has not read yet, the files it opened with dlopen and
  \* the files it found in the cache
  sc,
  \* the cache file of the catalog: the nodes of the catalog that is saved,
  \* the file plugins.cache and the file plugins.cache.new, the position of
  \* save_catalog, the cache_list that load_plugin_list built
  cf,
  \* load_plugin_list over one block after the other: its locals, the locals
  \* at the head of the block and the lines of the block that it has read
  pr

\* the controller with one thread at a time inside it, and its consumers
seqVars == <<stats, lc, ctl, hy, fi, rg, sc, cf, pr>>

(***************************************************************************)
(* Helpers on sequences.                                                   *)
(***************************************************************************)
Range(s) == {s[i] : i \in 1 .. Len(s)}

RemoveAt(s, i) == SubSeq(s, 1, i - 1) \o SubSeq(s, i + 1, Len(s))

InsertAt(s, i, x) == SubSeq(s, 1, i) \o <<x>> \o SubSeq(s, i + 1, Len(s))

IndexOf(s, x) == IF x \in Range(s)
                 THEN CHOOSE i \in 1 .. Len(s) : s[i] = x
                 ELSE 0

RECURSIVE SumOver(_, _)
SumOver(f, S) == IF S = {} THEN 0
                 ELSE LET x == CHOOSE y \in S : TRUE
                      IN f[x] + SumOver(f, S \ {x})

\* all orders of the set S
RECURSIVE Perms(_)
Perms(S) == IF S = {} THEN {<<>>}
            ELSE UNION {{<<x>> \o p : p \in Perms(S \ {x})} : x \in S}

(***************************************************************************)
(* The catalog after _x_scan_plugins.                                      *)
(***************************************************************************)
\* the catalogs the scan may have produced: the decoders found are all
\* audio, all video or all spu decoders, and either every decoder comes from
\* the plugin file or the last one is statically linked
Layouts == {"shared", "static"}
Catalogs == Kinds \X Layouts

KindOf(c, n) == c[1]

\* every decoder handles stream type 1, the first one stream type 2 as well
SupportedTypes(n) == IF n = 1 THEN <<1, 2>> ELSE <<1>>

\* decoder_info.priority of the plugin
DefaultPriority(n) == n

FileOf(c, n) == IF c[2] = "static" /\ n = NumNodes THEN NULL
                ELSE CHOOSE f \in Files : TRUE

InfoOf(c) == [n \in Nodes |->
                [type |-> KindOf(c, n),
                 supported_types |-> SupportedTypes(n),
                 priority |-> DefaultPriority(n),
                 file |-> FileOf(c, n)]]

NodesOfKind(k) == {n \in Nodes : info[n].type = k}
NodesOfFile(f) == {n \in Nodes : info[n].file = f}

\* a comparator that sorts by rising priority
_plugin_node_comparator_rising(pa, pb) ==
  (IF pa > pb THEN 1 ELSE 0) - (IF pa < pb THEN 1 ELSE 0)
\* _plugin_node_comparator: < 0 when a sorts before b (falling priority)
_plugin_node_comparator(pa, pb) ==
  (IF pa < pb THEN 1 ELSE 0) - (IF pa > pb THEN 1 ELSE 0)

\* a list is in comparator order under the priorities prio
Sorted(list, prio) ==
  \A i \in 1 .. (Len(list) - 1) :
     _plugin_node_comparator(prio[list[i]], prio[list[i + 1]]) <= 0

\* xine_sarray_add: the node goes to a place that keeps the array in
\* comparator order; among equal keys any place
xine_sarray_add(list, n, prio) ==
  {InsertAt(list, i, n) : i \in {j \in 0 .. Len(list) :
       Sorted(InsertAt(list, j, n), prio)}}

(***************************************************************************)
(* map_decoder_list: rebuild the dispatch rows of one decoder type from    *)
(* its sorted plugin list.                                                 *)
(***************************************************************************)
\* "for (pos = 0; pos < PLUGINS_PER_TYPE; pos++) if (!decoder_map[..][pos]) break"
FirstFree(row) ==
  IF \E p \in Slots : row[p] = NULL
  THEN CHOOSE p \in Slots : row[p] = NULL /\ \A q \in Slots : q < p => row[q] # NULL
  ELSE PLUGINS_PER_TYPE

\* one supported type of one node: skipped when the row is full, else the
\* node goes to the first free slot and the slot behind it is cleared
map_decoder_insert(map, node, streamtype) ==
  LET pos == FirstFree(map[streamtype])
  IN IF pos = PLUGINS_PER_TYPE
     THEN map
     ELSE [map EXCEPT ![streamtype] =
             [p \in Slots |-> IF p = pos THEN node
                              ELSE IF p = pos + 1 THEN NULL
                              ELSE @[p]]]

RECURSIVE map_decoder_types(_, _, _, _)
map_decoder_types(map, node, types, k) ==
  IF k > Len(types) THEN map
  ELSE map_decoder_types(
         IF types[k] \in StreamTypes
         THEN map_decoder_insert(map, node, types[k]) ELSE map,
         node, types, k + 1)

RECURSIVE map_decoder_nodes(_, _, _)
map_decoder_nodes(map, list, list_id) ==
  IF list_id > Len(list) THEN map
  ELSE map_decoder_nodes(
         map_decoder_types(map, list[list_id],
                           info[list[list_id]].supported_types, 1),
         list, list_id + 1)

\* only slot 0 of every row is cleared before the walk
map_decoder_list(list, map) ==
  map_decoder_nodes([t \in StreamTypes |-> [map[t] EXCEPT ![0] = NULL]], list, 1)

EmptyMap == [t \in StreamTypes |-> [p \in Slots |-> NULL]]

\* the nodes of a row up to its first NULL, in order
RECURSIVE RowSeq(_, _)
RowSeq(row, i) == IF i >= PLUGINS_PER_TYPE \/ row[i] = NULL THEN <<>>
                  ELSE <<row[i]>> \o RowSeq(row, i + 1)

Entries(row) == RowSeq(row, 0)

(***************************************************************************)
(* Reference counts.                                                       *)
(***************************************************************************)
inc_file_ref(r) == r + 1
dec_file_ref(r) == r - 1
inc_node_ref(r) == r + 1
\* a release that takes two references
dec_node_ref_twice(r) == r - 2
dec_node_ref(r) == r - 1

(***************************************************************************)
(* _load_plugin_class and _dispose_plugin_class on the part st of the      *)
(* catalog a lookup or a collection works on.                              *)
(***************************************************************************)
\* what the environment may answer to a class load of node n: dlopen fails
\* (only tried with no handle), the library gives no usable class, or the
\* class comes up; a statically linked plugin's init may return NULL
LoadOutcomes(st, n) ==
  IF info[n].file = NULL THEN {"ok", "null_class"}
  ELSE IF st.lib_handle[info[n].file] THEN {"ok", "init_fail"}
  ELSE {"ok", "init_fail", "dlopen_fail"}

_load_plugin_class(st, n, outcome) ==
  LET f == info[n].file
  IN IF f # NULL
     THEN IF outcome = "dlopen_fail"
          THEN [ret |-> FALSE, st |-> st]
          ELSE LET s1 == [st EXCEPT !.lib_handle[f] = TRUE]
               IN IF outcome = "ok"
                  THEN [ret |-> TRUE,
                        st |-> [s1 EXCEPT !.plugin_class[n] = TRUE,
                                          !.file_ref[f] = inc_file_ref(@)]]
                  ELSE [ret |-> FALSE, st |-> s1]
     \* statically linked: "node->plugin_class = init (); return 1;"
     ELSE [ret |-> TRUE, st |-> [st EXCEPT !.plugin_class[n] = (outcome = "ok")]]

_dispose_plugin_class(st, n) ==
  IF st.plugin_class[n]
  THEN LET s1 == [st EXCEPT !.plugin_class[n] = FALSE]
       IN IF info[n].file # NULL
          THEN [s1 EXCEPT !.file_ref[info[n].file] = dec_file_ref(@)]
          ELSE s1
  ELSE st

(***************************************************************************)
(* The lookup loop of _x_get_video_decoder, _x_get_audio_decoder and       *)
(* _x_get_spu_decoder.  st carries the row being walked and the catalog    *)
(* fields the loop changes; the result is the set of states the loop may   *)
(* end in, one for every answer of the environment.                        *)
(***************************************************************************)
\* "for (j = i + 1; j < PLUGINS_PER_TYPE; j++) map[j - 1] = map[j];
\*  map[PLUGINS_PER_TYPE-1] = NULL"
remove_from_row(row, i) ==
  [p \in Slots |-> IF p < i THEN row[p]
                   ELSE IF p < PLUGINS_PER_TYPE - 1 THEN row[p + 1]
                   ELSE NULL]

\* video and audio test the returned pointer against (T*)1, spu does not
has_sentinel_test(kind) == kind \in {"video", "audio"}

\* what open_plugin may return: an instance (while the callers hold fewer
\* than MaxInst), NULL, or the value 1
OpenOutcomes(st) ==
  {"null", "sentinel"} \cup
  (IF SumOver(st.inst, Nodes) < MaxInst THEN {"ok"} ELSE {})

Tried(st, node, res) == [st EXCEPT !.tried = Append(@, [node |-> node, res |-> res])]

Iter(st, i, done) == [st |-> st, i |-> i, done |-> done]

\* what the loop does with the pointer vd that open_plugin returned for the
\* candidate node at slot i: the state, the slot of the next iteration and
\* whether the loop is left
get_decoder_open(kind, st, i, node, vd) ==
  IF vd = "sentinel" /\ has_sentinel_test(kind)
  THEN \* nothing but a log line; the for loop goes to the next slot
       {Iter(Tried(st, node, "sentinel"), i + 1, FALSE)}
  ELSE IF vd = "null"
  THEN \* the entry is shifted out, "i--" keeps the loop at this slot
       {Iter([Tried(st, node, "null") EXCEPT !.row = remove_from_row(@, i),
                                             !.nfailed = Append(@, node)],
             i, FALSE)}
  ELSE IF vd = "ok"
  THEN {Iter([Tried(st, node, "ok") EXCEPT !.ref[node] = inc_node_ref(@),
                                           !.inst[node] = @ + 1,
                                           !.result = node],
             i, TRUE)}
  ELSE \* spu, value 1: "if (sd) { inc_node_ref (node); sd->node = node;"
       \* stores through the invalid pointer; the store traps, or it lands
       \* and the caller holds the value as an instance (capped by MaxInst)
       {Iter([Tried(st, node, "sentinel_used") EXCEPT
                  !.ref[node] = inc_node_ref(@),
                  !.inst[node] = IF c THEN @ ELSE @ + 1,
                  !.result = node,
                  !.crashed = c],
             i, TRUE) :
          c \in IF SumOver(st.inst, Nodes) < MaxInst THEN BOOLEAN ELSE {TRUE}}

\* one iteration of the for loop at a slot i that holds a node
get_decoder_iter(kind, st, i) ==
  LET node == st.row[i]
  IN IF st.plugin_class[node]
     THEN UNION {get_decoder_open(kind, st, i, node, vd) :
                   vd \in OpenOutcomes(st)}
     ELSE UNION {
       LET ld == _load_plugin_class(st, node, lo)
       IN IF ~ld.ret
          THEN {Iter([Tried(ld.st, node, "load_failed") EXCEPT
                          !.row = remove_from_row(@, i)], i, FALSE)}
          ELSE IF ~ld.st.plugin_class[node]
          THEN \* open_plugin is read through the NULL class
               {Iter([Tried(ld.st, node, "null_class") EXCEPT
                          !.crashed = TRUE], i, TRUE)}
          ELSE UNION {get_decoder_open(kind, ld.st, i, node, vd) :
                        vd \in OpenOutcomes(ld.st)}
       : lo \in LoadOutcomes(st, node)}

\* "for (i = 0; i < PLUGINS_PER_TYPE; i++) { node = map[i]; if (!node) break;"
loop_ends(st, i) == i >= PLUGINS_PER_TYPE \/ st.row[i] = NULL

RECURSIVE get_decoder_loop(_, _, _)
get_decoder_loop(kind, st, i) ==
  IF loop_ends(st, i)
  THEN {st}
  ELSE UNION {IF r.done THEN {r.st} ELSE get_decoder_loop(kind, r.st, r.i) :
                r \in get_decoder_iter(kind, st, i)}

NoOp == [op |-> "none", kind |-> "none", type |-> 0,
         tried |-> <<>>, result |-> NULL]

get_decoder(kind, stream_type) ==
  /\ ~crashed
  /\ lock = "none"
  /\ \E fin \in get_decoder_loop(kind,
                  [row |-> decoder_map[kind][stream_type],
                   plugin_class |-> plugin_class, lib_handle |-> lib_handle,
                   file_ref |-> file_ref, ref |-> ref, inst |-> inst,
                   tried |-> <<>>, result |-> NULL, crashed |-> FALSE,
                   nfailed |-> <<>>], 0) :
       /\ decoder_map' = [decoder_map EXCEPT ![kind][stream_type] = fin.row]
       /\ plugin_class' = fin.plugin_class
       /\ lib_handle' = fin.lib_handle
       /\ file_ref' = fin.file_ref
       /\ ref' = fin.ref
       /\ inst' = fin.inst
       /\ crashed' = fin.crashed
       /\ failed' = IF failed = {} /\ fin.nfailed # <<>>
                    THEN {<<stream_type, Head(fin.nfailed)>>}
                    ELSE failed
       /\ last' = [op |-> "get", kind |-> kind, type |-> stream_type,
                   tried |-> fin.tried, result |-> fin.result]
  /\ UNCHANGED <<info, plugin_lists, priority, no_unload>>
  /\ UNCHANGED lockVars
  /\ UNCHANGED <<nbcVars, seqVars>>

_x_get_video_decoder == \E t \in StreamTypes : get_decoder("video", t)
_x_get_audio_decoder == \E t \in StreamTypes : get_decoder("audio", t)
_x_get_spu_decoder == \E t \in StreamTypes : get_decoder("spu", t)

\* the caller disposes an instance it holds; the node's ref goes down
free_decoder(kind) ==
  /\ ~crashed
  /\ lock = "none"
  /\ \E node \in NodesOfKind(kind) :
       /\ inst[node] > 0
       /\ ref' = [ref EXCEPT ![node] = dec_node_ref(@)]
       /\ inst' = [inst EXCEPT ![node] = @ - 1]
       /\ last' = NoOp
  /\ UNCHANGED <<info, plugin_lists, decoder_map, priority, plugin_class,
                 lib_handle, file_ref, no_unload, failed, crashed>>
  /\ UNCHANGED lockVars
  /\ UNCHANGED <<nbcVars, seqVars>>

_x_free_video_decoder == free_decoder("video")
_x_free_audio_decoder == free_decoder("audio")
_x_free_spu_decoder == free_decoder("spu")

(***************************************************************************)
(* xine_plugins_garbage_collector.                                         *)
(***************************************************************************)
\* a collector that does not look at the file's reference count
_unload_unref_plugin_any(st, node) ==
  IF st.ref[node] = 0
  THEN LET file == info[node].file
           s1 == _dispose_plugin_class(st, node)
       IN IF file # NULL /\ s1.lib_handle[file] /\ ~no_unload[file]
          THEN [s1 EXCEPT !.lib_handle[file] = FALSE]
          ELSE s1
  ELSE st
_unload_unref_plugin(st, node) ==
  IF st.ref[node] = 0
  THEN LET file == info[node].file
           s1 == _dispose_plugin_class(st, node)
       IN IF file # NULL /\ s1.file_ref[file] = 0 /\ s1.lib_handle[file]
             /\ ~no_unload[file]
          THEN [s1 EXCEPT !.lib_handle[file] = FALSE]
          ELSE s1
  ELSE st

\* a collector that disposes the class of every node, used or not
RECURSIVE _unload_unref_plugins_all(_, _, _)
_unload_unref_plugins_all(st, list, list_id) ==
  IF list_id > Len(list) THEN st
  ELSE _unload_unref_plugins_all(_dispose_plugin_class(st, list[list_id]),
                                 list, list_id + 1)

RECURSIVE _unload_unref_plugins(_, _, _)
_unload_unref_plugins(st, list, list_id) ==
  IF list_id > Len(list) THEN st
  ELSE _unload_unref_plugins(_unload_unref_plugin(st, list[list_id]),
                             list, list_id + 1)

RECURSIVE gc_walk(_, _)
gc_walk(st, i) ==
  IF i > Len(KindSeq) THEN st
  ELSE gc_walk(_unload_unref_plugins(st, plugin_lists[KindSeq[i]], 1), i + 1)

xine_plugins_garbage_collector ==
  /\ ~crashed
  /\ lock = "none"
  /\ LET fin == gc_walk([plugin_class |-> plugin_class,
                         lib_handle |-> lib_handle,
                         file_ref |-> file_ref, ref |-> ref], 1)
     IN /\ plugin_class' = fin.plugin_class
        /\ lib_handle' = fin.lib_handle
        /\ file_ref' = fin.file_ref
  /\ last' = NoOp
  /\ UNCHANGED <<info, plugin_lists, decoder_map, priority, ref, no_unload,
                 inst, failed, crashed>>
  /\ UNCHANGED lockVars
  /\ UNCHANGED <<nbcVars, seqVars>>

(***************************************************************************)
(* _decoder_priority_cb: the user changed the priority entry of a decoder. *)
(***************************************************************************)
\* the user priority taken as it is
effective_priority_plain(node, user_prio) ==
  IF user_prio # 0 THEN user_prio ELSE info[node].priority

\* "user_prio ? user_prio * 100 : node->ainfo.decoder_info.priority"
effective_priority(node, user_prio) ==
  IF user_prio # 0 THEN user_prio * 100 ELSE info[node].priority

\* the callback takes no lock: it runs whoever holds catalog->lock
_decoder_priority_cb(node, user_prio) ==
  LET kind == info[node].type
      list == plugin_lists[kind]
  IN /\ ~crashed
     /\ cb.pc = "idle"
     /\ node \in Range(list)
     /\ LET removed == RemoveAt(list, IndexOf(list, node))
            prio == [priority EXCEPT ![node] = effective_priority(node, user_prio)]
        IN \E added \in xine_sarray_add(removed, node, prio) :
              /\ priority' = prio
              /\ plugin_lists' = [plugin_lists EXCEPT ![kind] = added]
              /\ decoder_map' = [decoder_map EXCEPT
                                   ![kind] = map_decoder_list(added, @)]
     /\ last' = NoOp
     /\ UNCHANGED <<info, ref, plugin_class, lib_handle, file_ref, no_unload,
                    inst, failed, crashed>>
     /\ UNCHANGED lockVars
     /\ UNCHANGED <<nbcVars, seqVars>>

PriorityChange ==
  \E node \in Nodes, user_prio \in 0 .. MaxUserPrio :
     _decoder_priority_cb(node, user_prio)

(***************************************************************************)
(* The catalog as _x_scan_plugins leaves it: every list sorted, the maps   *)
(* built from the lists, no class loaded, no instance open.  A file found  *)
(* in the cache has no handle yet, a freshly scanned one has.              *)
(***************************************************************************)
SortedLists(S, prio) == {l \in Perms(S) : Sorted(l, prio)}

CatInit ==
  /\ info \in {InfoOf(c) : c \in Catalogs}
  /\ priority = [n \in Nodes |-> info[n].priority]
  /\ plugin_lists \in [Kinds -> UNION {Perms(S) : S \in SUBSET Nodes}]
  /\ \A k \in Kinds : plugin_lists[k] \in SortedLists(NodesOfKind(k), priority)
  /\ decoder_map = [k \in Kinds |-> map_decoder_list(plugin_lists[k], EmptyMap)]
  /\ ref = [n \in Nodes |-> 0]
  /\ plugin_class = [n \in Nodes |-> FALSE]
  /\ lib_handle \in [Files -> BOOLEAN]
  /\ file_ref = [f \in Files |-> 0]
  /\ no_unload \in [Files -> BOOLEAN]
  /\ inst = [n \in Nodes |-> 0]
  /\ failed = {}
  /\ last = NoOp
  /\ crashed = FALSE

CatNext ==
  \/ _x_get_video_decoder
  \/ _x_get_audio_decoder
  \/ _x_get_spu_decoder
  \/ _x_free_video_decoder
  \/ _x_free_audio_decoder
  \/ _x_free_spu_decoder
  \/ xine_plugins_garbage_collector
  \/ PriorityChange

LkIdle == [pc |-> "idle", kind |-> "none", type |-> 0, i |-> 0,
           seen |-> {}, again |-> FALSE]
CbIdle == [pc |-> "idle", node |-> NULL, user_prio |-> 0]

LockInit == lock = "none" /\ lk = LkIdle /\ cb = CbIdle

(***************************************************************************)
(* The network buffer controller as xine_nbc_init leaves it: calloc'ed     *)
(* (delay.state NBC_DELAY_OFF, dvbspeed 0, not enabled), one reference,    *)
(* speed_val read from the clock, the three callbacks registered on the    *)
(* video and on the audio queue.                                           *)
(***************************************************************************)
Fifos == {"video", "audio"}
ThreadIds == 1 .. MaxThreads
CbKinds == {"alloc", "put", "get"}

\* a thread outside the callbacks of a queue
CbpIdle ==
  [pc |-> "idle", op |-> "none", speed |-> "none", sv |-> "none",
   ret |-> "none", stale |-> FALSE, jt |-> 0, br |-> FALSE,
   sin |-> "none", rearm |-> FALSE, sres |-> "none"]

\* a thread handle that names no thread
ThrNone == [pc |-> "none", sv |-> "none", stale |-> FALSE, cur |-> FALSE]

NbcInit ==
  /\ nbc = [mutex |-> "none", enabled |-> FALSE, buffering |-> FALSE,
            dvbspeed |-> 0, speed_val |-> "normal", refs |-> 1,
            life |-> "live"]
  /\ delay = [state |-> "OFF", thread |-> 0, expired |-> FALSE]
  /\ fifo = [q \in Fifos |-> [lock |-> FALSE, cbs |-> CbKinds]]
  /\ clock = "normal"
  /\ cbp = [q \in Fifos |-> CbpIdle]
  /\ thr = [t \in ThreadIds |-> ThrNone]
  /\ cl = 0
  /\ nh = [calls |-> 0, bad_join |-> FALSE, uaf |-> FALSE, halt |-> FALSE]

(***************************************************************************)
(* The fill statistics: nbc_stats_reset, nbc_stats_flat, nbc_stats_add.    *)
(* A record st has the fields of this->stats, the name op of the last     *)
(* call and the value ret that it returned (0 when it returns none).       *)
(***************************************************************************)
Levels == 0 .. LevelMax
HistSlots == 0 .. NBC_HSIZE_NUM - 1

\* "level = pts; level /= (90000u / 16u); if (level > 255) level = 255;"
Level(pts) ==
  LET level == pts \div LevelUnit
  IN IF level > LevelMax THEN LevelMax ELSE level

\* "num[...] -= 1" and "num[...] += 1" on uint32_t: 0 - 1 is the largest
\* value, written U32Max here, and U32Max + 1 is 0
U32Max == -1
U32Dec(n) == IF n = 0 THEN U32Max ELSE IF n = U32Max THEN n ELSE n - 1
U32Inc(n) == IF n = U32Max THEN 0 ELSE n + 1

nbc_stats_reset(st) ==
  [st EXCEPT !.min = 0, !.hpos = 0,
             !.hist = [u \in HistSlots |-> 0],
             !.num = [v \in Levels |-> IF v = 0 THEN NBC_HSIZE_NUM ELSE 0],
             !.ret = 0, !.op = "reset"]

nbc_stats_flat(st, pts) ==
  LET level == Level(IF pts < 0 THEN 0 ELSE pts)
  IN [st EXCEPT !.min = level,
                !.hist = [u \in HistSlots |-> level],
                !.num = [v \in Levels |->
                           IF v = level THEN NBC_HSIZE_NUM ELSE 0],
                !.ret = 0, !.op = "flat"]

\* "for (min = this->stats.min; this->stats.num[min] <= 0; min++) ;" which
\* reads behind num[] when no count is left
RECURSIVE ScanMin(_, _)
ScanMin(num, min) ==
  IF min > LevelMax THEN min
  ELSE IF num[min] = 0 THEN ScanMin(num, min + 1) ELSE min

\* nbc_stats_add that keeps the old minimum when the new level is not lower
nbc_stats_add_no_scan(st, pts) ==
  IF pts < 0 THEN [st EXCEPT !.ret = st.min * LevelUnit, !.op = "add"]
  ELSE LET level == Level(pts)
           hpos == (st.hpos + 1) % NBC_HSIZE_NUM
           num1 == [st.num EXCEPT ![st.hist[hpos]] = U32Dec(@)]
           num2 == [num1 EXCEPT ![level] = U32Inc(@)]
           min == IF level < st.min THEN level ELSE st.min
       IN [min |-> min, hpos |-> hpos,
           hist |-> [st.hist EXCEPT ![hpos] = level], num |-> num2,
           ret |-> min * LevelUnit, op |-> "add"]

nbc_stats_add(st, pts) ==
  IF pts < 0 THEN [st EXCEPT !.ret = st.min * LevelUnit, !.op = "add"]
  ELSE LET level == Level(pts)
           hpos == (st.hpos + 1) % NBC_HSIZE_NUM
           num1 == [st.num EXCEPT ![st.hist[hpos]] = U32Dec(@)]
           num2 == [num1 EXCEPT ![level] = U32Inc(@)]
           min == IF level < st.min THEN level ELSE ScanMin(num2, st.min)
       IN [min |-> min, hpos |-> hpos,
           hist |-> [st.hist EXCEPT ![hpos] = level], num |-> num2,
           ret |-> min * LevelUnit, op |-> "add"]

\* xine_nbc_init: "nbc_stats_reset (this);"
StatsInit ==
  nbc_stats_reset([min |-> 0, hpos |-> 0, hist |-> [u \in HistSlots |-> 0],
                   num |-> [v \in Levels |-> 0], ret |-> 0, op |-> "reset"])

(***************************************************************************)
(* The consumers of a stream: xine_nbc_init and xine_nbc_close, with the   *)
(* places where the calls leave s->counter.lock.                           *)
(***************************************************************************)
Consumers == 1 .. MaxRefs
Ctls == 1 .. MaxCtl

\* no controller was created yet; reg and dead count the registrations of
\* the callbacks and the destructions of a controller
LifeInit ==
  [refs |-> 0, nbc |-> NULL,
   ctl |-> [k \in Ctls |-> [st |-> "none", reg |-> 0, dead |-> 0]],
   on |-> <<>>,
   con |-> [c \in Consumers |-> [pc |-> "idle", nbc |-> NULL]]]

(***************************************************************************)
(* The callbacks with one caller at a time, on numbers.  A record x has    *)
(* the controller fields c and the statistics s; c.pend is the local       *)
(* "speed" of a callback ("none" for -1), c.req the speeds that the call   *)
(* has requested with nbc_set_speed, c.speed the last of them, c.last the  *)
(* call that was made last.                                                *)
(***************************************************************************)
\* "(mask >> i) & 1"
Bit(mask, i) == (mask \div (2 ^ i)) % 2 = 1

\* the queue's buffers are not the ones dvbspeed watches in this state:
\* "(0x71 >> this->dvbspeed) & 1" for video, "(0x0f >> ...) & 1" for audio
not_watched(p, dvbspeed) ==
  Bit(IF p = "video" THEN 113 ELSE 15, dvbspeed)

\* 90000 pts; the model has three fill levels in two seconds, the engine 16
\* in one
PtsPerSecond == (3 * LevelUnit) \div 2
\* "this->dvbs_center = 2 * 90000;" and "this->dvbs_width = 90000;"
Center2s == 2 * PtsPerSecond
Width1s == PtsPerSecond
\* "this->dvbs_width = 135000;"
WidthWide == (3 * PtsPerSecond) \div 2
\* "(d < 3 * 90000)"
CenterMax == 3 * PtsPerSecond

NoCall == "none"

\* the controller after xine_nbc_init with queues of the default size
CtlInit ==
  [refs |-> 1, enabled |-> FALSE, buffering |-> FALSE, dvbspeed |-> 0,
   dvbs_center |-> 0, dvbs_width |-> 0, delay |-> "OFF", speed |-> "normal",
   progress |-> 0, high_water_mark |-> HighWaterMark, pend |-> "none",
   req |-> <<>>, last |-> NoCall]

\* nbc_set_speed with nobody else at the mutex
Req(x, speed) == [x EXCEPT !.c.speed = speed, !.c.req = Append(@, speed)]

\* "100 * used > pct * fifo_info->fifo->buffer_pool_capacity"
Over(used, pct) == 100 * used > pct * Capacity
Under(used, pct) == 100 * used < pct * Capacity

\* the tests of dvbspeed_put and dvbspeed_get on c = the controller, fill =
\* what is compared (all_fill, or what nbc_stats_add returned for it) and
\* used = fifo_fill
\* "(all_fill > this->dvbs_center + this->dvbs_width) || (100 * used > 98 *
\*  fifo_info->fifo->buffer_pool_capacity)"
put_full_73(c, fill, used) ==
  fill > c.dvbs_center + c.dvbs_width \/ Over(used, 73)

\* a return test that looks at nothing but "all_fill &&"
get_back_any(c, fill, used) == fill # 0

put_full(c, fill, used) ==
  fill > c.dvbs_center + c.dvbs_width \/ Over(used, 98)

\* "(all_fill > this->dvbs_center) || (100 * used > 73 * ...)"
put_ready(c, fill, used) == fill > c.dvbs_center \/ Over(used, 73)

\* "all_fill && (all_fill < this->dvbs_center - this->dvbs_width) &&
\*  (100 * used < 38 * ...)"
get_low(c, fill, used) ==
  fill # 0 /\ fill < c.dvbs_center - c.dvbs_width /\ Under(used, 38)

\* "all_fill && (all_fill < this->dvbs_center) && (100 * used < 73 * ...)"
get_back_38(c, fill, used) ==
  fill # 0 /\ fill < c.dvbs_center - c.dvbs_width /\ Under(used, 38)

get_back(c, fill, used) ==
  fill # 0 /\ fill < c.dvbs_center /\ Under(used, 73)

\* "if (used <= 1)"
get_lost_2(used) == used <= 2

get_lost(used) == used <= 1

\* the state that watches the queue of this type at normal speed
put_armed_video(type) == 1

put_armed(type) == IF type = "video" THEN 1 ELSE 4

\* nbc_delay_set.  The deadline is base + dvbs_center: not reached when the
\* base was taken in this call, reached or not otherwise.  Then: a running
\* thread is signalled; else a thread is created (after the join of one
\* that has ended), and when pthread_create fails the agent is off and
\* the clock unpaused.
seq_delay_set(x, based) ==
  (IF based THEN {} ELSE {Req(x, "normal")})
  \cup (IF x.c.delay = "RUN" THEN {x}
        ELSE {[x EXCEPT !.c.delay = "RUN"],
              Req([x EXCEPT !.c.delay = "OFF"], "normal")})

\* "this->dvbspeed = (fifo_info->type == BUF_VIDEO_BASE) ? 1 : 4;
\*  if (used < 30) this->dvbs_width = 135000;"
seq_put_armed(x, type, used) ==
  [x EXCEPT !.c.dvbspeed = put_armed(type),
            !.c.dvbs_width = IF used < 30 THEN WidthWide ELSE @]

\* video.last_in_pts - audio.last_in_pts + 110000, or 0 when one of the two
\* is not known: below, within and above what dvbs_center adapts to
Leads == {0, Center2s + 1, CenterMax}

\* "this->dvbs_center = 2 * 90000; if (... (fifo_info->type ==
\*  BUF_VIDEO_BASE)) { ... if ((d < 3 * 90000) && (d > this->dvbs_center))
\*  this->dvbs_center = d; }"
seq_center(type) ==
  {IF type = "video" /\ lead # 0 /\ lead < CenterMax /\ lead > Center2s
   THEN lead ELSE Center2s : lead \in Leads}

\* dvbspeed_put on the numbers: all_fill = fill_pts + out_pts, used =
\* fifo_fill
seq_dvbspeed_put(x, type, all_fill, used) ==
  LET d == x.c.dvbspeed
  IN IF not_watched(type, d) THEN {x}
     ELSE CASE d \in {1, 4} ->
                 LET x1 == [x EXCEPT !.s = nbc_stats_add(@, all_fill)]
                 IN IF put_full(x.c, x1.s.ret, used)
                    THEN {[x1 EXCEPT !.c.dvbspeed = d + 2,
                                     !.c.pend = "fast"]}
                    ELSE {x1}
            [] d = 7 ->
                 LET based == x.c.speed # "pause"
                     x1 == IF based THEN [x EXCEPT !.c.pend = "pause"] ELSE x
                     x2(center) ==
                       [x1 EXCEPT !.c.dvbs_center = center,
                                  !.s = nbc_stats_flat(@, all_fill)]
                 IN IF put_ready(x.c, all_fill, used)
                    THEN {seq_put_armed(y, type, used) :
                            y \in UNION {seq_delay_set(x2(center), based) :
                                           center \in seq_center(type)}}
                    ELSE {x1}
            [] d \in {2, 5} ->
                 LET x1 == [x EXCEPT !.s = nbc_stats_add(@, all_fill)]
                 IN IF put_ready(x.c, x1.s.ret, used)
                    THEN {seq_put_armed(y, type, used) :
                            y \in seq_delay_set(x1, FALSE)}
                    ELSE {x1}
            [] OTHER -> {x}

\* nbc_delay_clean: the thread that has ended is joined
seq_delay_clean(x) ==
  IF x.c.delay = "STOP" THEN [x EXCEPT !.c.delay = "OFF"] ELSE x

\* dvbspeed_get on the numbers
seq_dvbspeed_get(x0, type, all_fill, used) ==
  LET x == seq_delay_clean(x0)
      d == x.c.dvbspeed
      x1 == [x EXCEPT !.s = nbc_stats_add(@, all_fill)]
  IN IF not_watched(type, d) THEN x
     ELSE CASE d \in {1, 4} ->
                 IF get_low(x.c, x1.s.ret, used)
                 THEN [x1 EXCEPT !.c.dvbspeed = d + 1, !.c.pend = "slow"]
                 ELSE x1
            [] d \in {2, 5} ->
                 IF get_lost(used)
                 THEN [x EXCEPT !.c.dvbspeed = 7, !.s = nbc_stats_reset(@),
                                !.c.pend = "pause"]
                 ELSE x
            [] d \in {3, 6} ->
                 IF get_back(x.c, x1.s.ret, used)
                 THEN [x1 EXCEPT !.c.dvbspeed = d - 2, !.c.pend = "normal"]
                 ELSE x1
            [] OTHER -> x

\* dvbspeed_init of a live input
seq_dvbspeed_init(x) ==
  [x EXCEPT !.c.delay = "OFF", !.c.dvbs_center = Center2s,
            !.c.dvbs_width = Width1s, !.c.dvbspeed = 7]

\* "case BUF_CONTROL_START:"
seq_control_start(x, live) ==
  IF x.c.enabled THEN x
  ELSE LET x1 == [x EXCEPT !.c.enabled = TRUE, !.c.buffering = TRUE,
                           !.c.progress = 0]
       IN IF live THEN seq_dvbspeed_init(x1)
          ELSE [x1 EXCEPT !.c.pend = "pause"]

\* nbc_delay_stop: a waiting thread is told to end and the clock unpaused,
\* the thread is joined
seq_delay_stop(x) ==
  CASE x.c.delay = "RUN" -> Req([x EXCEPT !.c.delay = "OFF"], "normal")
    [] x.c.delay = "STOP" -> [x EXCEPT !.c.delay = "OFF"]
    [] OTHER -> x

\* dvbspeed_close
seq_dvbspeed_close(x) ==
  LET x1 == seq_delay_stop(x)
      x2 == IF Bit(236, x1.c.dvbspeed) THEN Req(x1, "normal") ELSE x1
  IN [x2 EXCEPT !.c.dvbspeed = 0]

\* "case BUF_CONTROL_END:"
seq_control_end(x) ==
  LET x1 == seq_dvbspeed_close(x)
  IN IF ~x1.c.enabled THEN x1
     ELSE IF x1.c.buffering
          THEN [x1 EXCEPT !.c.enabled = FALSE, !.c.buffering = FALSE,
                          !.c.progress = 100, !.c.pend = "normal"]
          ELSE [x1 EXCEPT !.c.enabled = FALSE]

\* nbc_alloc_cb with at most FULL_FIFO_MARK buffers free
seq_alloc(x) ==
  LET d == x.c.dvbspeed
  IN IF ~x.c.enabled THEN x
     ELSE IF d # 0
          THEN IF ~Bit(72, d)
               THEN Req([x EXCEPT !.c.dvbspeed = IF Bit(6, d) THEN 3 ELSE 6],
                        "fast")
               ELSE x
          ELSE IF x.c.buffering
               THEN Req([x EXCEPT !.c.buffering = FALSE, !.c.progress = 100],
                        "normal")
               ELSE x

\* what nbc_compute_fifo_length leaves for the tests that follow it: the
\* stream's has_video and has_audio, the two fifo lengths, the two fill
\* percentages and the free buffers of the two queues
FifoLengths == 0 .. MaxFactor * HighWaterMark + 1
FifoFills == {0, 40}
FifoFrees == {FULL_FIFO_MARK, FULL_FIFO_MARK + 1}
Computed ==
  [has_video : BOOLEAN, has_audio : BOOLEAN,
   vlen : FifoLengths, alen : FifoLengths,
   vfill : FifoFills, afill : FifoFills,
   vfree : FifoFrees, afree : FifoFrees]

\* "restart playing if high_water_mark is reached by all fifos": the test
\* of nbc_put_cb on the lengths f
reached_any(c, f) ==
  (f.has_video /\ f.vlen > c.high_water_mark)
    \/ (f.has_audio /\ f.alen > c.high_water_mark)

reached(c, f) ==
  CASE f.has_video /\ f.has_audio ->
         f.vlen > c.high_water_mark /\ f.alen > c.high_water_mark
    [] f.has_video /\ ~f.has_audio -> f.vlen > c.high_water_mark
    [] ~f.has_video /\ f.has_audio -> f.alen > c.high_water_mark
    [] OTHER -> FALSE

\* "compute the buffering progress, 50%: video, 50%: audio", and the number
\* of buffers where the lengths give 0
vod_progress(c, f) ==
  LET byLength ==
        CASE f.has_video /\ f.has_audio ->
               ((f.vlen + f.alen) * 50) \div c.high_water_mark
          [] f.has_video /\ ~f.has_audio ->
               (f.vlen * 100) \div c.high_water_mark
          [] ~f.has_video /\ f.has_audio ->
               (f.alen * 100) \div c.high_water_mark
          [] OTHER -> 0
  IN IF byLength # 0 THEN byLength
     ELSE IF f.vfill > f.afill THEN f.vfill ELSE f.afill

\* nbc_put_cb with a media buffer, "else if (this->enabled)": dvbspeed is 0
seq_vod_put(x, f) ==
  IF ~x.c.enabled \/ ~x.c.buffering THEN x
  ELSE IF reached(x.c, f)
       THEN [x EXCEPT !.c.buffering = FALSE, !.c.progress = 100,
                      !.c.pend = "normal"]
       ELSE IF vod_progress(x.c, f) > x.c.progress
            THEN [x EXCEPT !.c.progress = vod_progress(x.c, f)]
            ELSE x

\* "start buffering if one fifo is empty", "do not pause if a fifo is full"
vod_empty(f) ==
  /\ (f.vlen = 0 /\ f.has_video) \/ (f.alen = 0 /\ f.has_audio)
  /\ f.vfree > FULL_FIFO_MARK /\ f.afree > FULL_FIFO_MARK

\* nbc_get_cb with a media buffer, "else if (this->enabled)"
seq_vod_get(x, f) ==
  IF ~x.c.enabled THEN x
  ELSE IF x.c.buffering THEN [x EXCEPT !.c.pend = "pause"]
       ELSE IF vod_empty(f)
            THEN [x EXCEPT !.c.buffering = TRUE, !.c.progress = 0,
                           !.c.pend = "pause"]
            ELSE x

\* xine_nbc_event (XINE_NBC_EVENT_AUDIO_DRY) between its nbc_refs += 1 and
\* its xine_nbc_close
event_dry_any(c, fill_pts) == c.dvbspeed \in {4, 5, 6}

\* "if (this->audio.fill_pts < 1000) switch (this->dvbspeed) { case 4:
\*  case 5: case 6:"
event_dry(c, fill_pts) == fill_pts < DryMark /\ c.dvbspeed \in {4, 5, 6}

seq_event(x, fill_pts) ==
  IF event_dry(x.c, fill_pts)
  THEN Req([x EXCEPT !.c.dvbspeed = 7, !.s = nbc_stats_reset(@)], "pause")
  ELSE x

\* nbc_delay_thread at ETIMEDOUT
seq_timeout(x) == Req([x EXCEPT !.c.delay = "STOP"], "normal")

\* "if (speed >= 0) nbc_set_speed (this, speed);"
seq_final_speed_always(x) ==
  Req([x EXCEPT !.c.pend = "none"],
      IF x.c.pend # "none" THEN x.c.pend ELSE x.c.speed)

seq_final_speed(x) ==
  IF x.c.pend # "none" THEN Req([x EXCEPT !.c.pend = "none"], x.c.pend)
  ELSE x

\* the scenario has not begun
\* the pts of a buffer: 0 is "no pts"; a pts may lie beyond the wrap
PtsValues == 0 .. PtsWrap + MaxDiff + 1

\* the do { ... } while (0) of nbc_put_cb and of nbc_get_cb: the difference
\* to the last pts, one try of the wrap, and the test of the result; how is
\* "plain" or "wrapped" when the difference is taken, "dropped" when not
pts_diff_nowrap(pts, prev) ==
  LET diff == pts - prev IN
    IF diff < -MaxDiff \/ diff > MaxDiff
      THEN [how |-> "dropped", diff |-> 0]
      ELSE [how |-> "plain", diff |-> diff]

pts_diff(pts, prev) ==
  LET diff == pts - prev IN
    IF diff < -MaxDiff
      THEN IF diff + PtsWrap < -MaxDiff \/ diff + PtsWrap > MaxDiff
             THEN [how |-> "dropped", diff |-> 0]
             ELSE [how |-> "wrapped", diff |-> diff + PtsWrap]
      ELSE IF diff > MaxDiff
             THEN IF diff - PtsWrap < -MaxDiff \/ diff - PtsWrap > MaxDiff
                    THEN [how |-> "dropped", diff |-> 0]
                    ELSE [how |-> "wrapped", diff |-> diff - PtsWrap]
             ELSE [how |-> "plain", diff |-> diff]

\* nbc_put_cb on a buffer of the type of the queue: the pts of the buffer
pts_put(f, pts) ==
  IF pts = 0 THEN [f EXCEPT !.op = "put", !.how = "nopts"]
  ELSE IF f.last_in_pts = 0
    THEN [f EXCEPT !.last_in_pts = pts, !.op = "put", !.how = "first"]
    ELSE LET d == pts_diff(pts, f.last_in_pts) IN
           [f EXCEPT !.pos_pts = @ + d.diff, !.fill_pts = @ + d.diff,
                     !.last_in_pts = pts, !.op = "put", !.how = d.how]

\* nbc_get_cb on a buffer of the type of the queue: the pts of the buffer
pts_get(f, pts) ==
  IF pts = 0 THEN [f EXCEPT !.op = "get", !.how = "nopts"]
  ELSE IF f.last_out_pts = 0
    THEN [f EXCEPT !.last_out_pts = pts, !.op = "get", !.how = "first"]
    ELSE LET d == pts_diff(pts, f.last_out_pts) IN
           [f EXCEPT !.fill_pts = @ - d.diff,
                     !.last_out_pts = pts, !.op = "get", !.how = d.how]

\* xine_nbc_init: the fifo info of a new controller
FiInit == [last_in_pts |-> 0, last_out_pts |-> 0, pos_pts |-> 0,
           fill_pts |-> 0, op |-> "none", how |-> "none"]

(***************************************************************************)
(* Registration: _register_plugins_internal walks the plugin_info_t array  *)
(* of a file (or the chain of cached nodes) and hands each entry to        *)
(* _insert_node.                                                           *)
(***************************************************************************)
\* info->type & PLUGIN_TYPE_MASK: three of the types of the engine, and a
\* value that is no type (0 under the mask, or beyond PLUGIN_TYPE_MAX and
\* not PLUGIN_XINE_MODULE)
RegTypes == {"input", "audio_decoder", "video_out"}
RegDecoders == {"audio_decoder"}
\* the types whose special_info must not be NULL
NeedInfo == {"audio_decoder", "video_out"}
RegIds == {"a", "b"}
\* info->id is NULL
NoId == "NULL"

\* a plugin_info_t: api is "info->API == plugin_iface_versions[type]",
\* init is "info->init != NULL", special_info is "none" (NULL), "nosup"
\* (decoder_info.supported_types is NULL) or "full"; priority is the one
\* of the special info; user is what the configuration holds for
\* engine.decoder_priorities.<id> (0 as well for an old config file)
AllInfos == [type : RegTypes \cup {"unknown"}, id : RegIds \cup {NoId},
             api : BOOLEAN, init : BOOLEAN,
             special_info : {"none", "nosup", "full"},
             priority : {0, 1, 2}, user : {0, 1}]

\* the "sanity test" of _insert_node: 0 when the entry passes
insert_broken(d, node_cache) ==
  IF d.type \notin RegTypes THEN 1
  ELSE IF d.id = NoId THEN 1
  ELSE IF ~d.api THEN 1
  ELSE IF ~node_cache /\ ~d.init THEN 1
  ELSE IF d.type \in NeedInfo /\ d.special_info = "none" THEN 1
  ELSE IF d.type \in RegDecoders /\ d.special_info = "nosup" THEN 1
  ELSE 0

\* "left": the room in the catalog for this entry
insert_left_plugins(c, d) == PLUGIN_MAX - c.plugin_count

insert_left(c, d) ==
  IF d.type \in RegDecoders
       /\ PLUGIN_MAX - c.plugin_count > DECODER_MAX - c.decoder_count
    THEN DECODER_MAX - c.decoder_count
    ELSE PLUGIN_MAX - c.plugin_count

\* the return value of _insert_node; nomem is "malloc gave NULL"
insert_status(c, d, node_cache, nomem) ==
  IF insert_broken(d, node_cache) # 0 THEN 1
  ELSE IF insert_left(c, d) <= 0 THEN 2
  ELSE IF ~node_cache /\ nomem THEN 2
  ELSE 0

\* entry->node.priority, "type specific stuff"
insert_priority(d) ==
  IF d.type \in RegDecoders
    THEN IF d.user # 0 THEN d.user * 100 ELSE d.priority
    ELSE IF d.special_info = "none" THEN 0 ELSE d.priority

RegSorted(list) ==
  \A i \in 1 .. (Len(list) - 1) :
     _plugin_node_comparator(list[i].priority, list[i + 1].priority) <= 0

\* xine_sarray_add of the new node (XINE_SARRAY_MODE_DEFAULT): behind the
\* nodes that sort before it or equal to it
reg_sarray_add(list, e) ==
  LET k == Cardinality({i \in 1 .. Len(list) :
              _plugin_node_comparator(list[i].priority, e.priority) <= 0})
  IN InsertAt(list, k, e)

\* _insert_node: the catalog after it
_insert_node(c, d, node_cache, nomem) ==
  IF insert_status(c, d, node_cache, nomem) # 0 THEN c
  ELSE [c EXCEPT
          !.lists[d.type] = reg_sarray_add(@, [id |-> d.id,
                                               priority |-> insert_priority(d)]),
          !.decoder_count = IF d.type \in RegDecoders THEN @ + 1 ELSE @,
          !.plugin_count = @ + 1]

\* an array that ends at the first entry that _insert_node turns down
RECURSIVE register_until_bad(_, _, _, _, _)
register_until_bad(c, infos, k, node_cache, nomem) ==
  IF k > Len(infos) THEN c
  ELSE IF insert_status(c, infos[k], node_cache, nomem) # 0
    THEN [c EXCEPT !.res = Append(@, insert_status(c, infos[k], node_cache, nomem))]
    ELSE register_until_bad(
         [_insert_node(c, infos[k], node_cache, nomem) EXCEPT !.res = Append(@, 0)],
         infos, k + 1, node_cache, nomem)

\* _register_plugins_internal: "while (info && info->type != PLUGIN_NONE)",
\* from entry k of the array on; res collects the status of each entry
RECURSIVE register_from(_, _, _, _, _)
register_from(c, infos, k, node_cache, nomem) ==
  IF k > Len(infos) THEN c
  ELSE register_from(
         [_insert_node(c, infos[k], node_cache, nomem) EXCEPT
            !.res = Append(@, insert_status(c, infos[k], node_cache, nomem))],
         infos, k + 1, node_cache, nomem)

_register_plugins_internal(c, infos, node_cache, nomem) ==
  register_from([c EXCEPT !.res = <<>>], infos, 1, node_cache, nomem)

\* the entries of an array that _insert_node took
RECURSIVE Taken(_, _, _)
Taken(infos, res, k) ==
  IF k > Len(infos) THEN <<>>
  ELSE (IF res[k] = 0 THEN <<infos[k]>> ELSE <<>>) \o Taken(infos, res, k + 1)

\* the catalog without the statuses of the last call
RegCatalog(c) == [c EXCEPT !.res = <<>>]

\* _new_catalog: calloc and empty lists
RegInit == [plugin_count |-> 0, decoder_count |-> 0,
            lists |-> [t \in RegTypes |-> <<>>], res |-> <<>>]

(***************************************************************************)
(* The plugin scan: _x_scan_plugins makes a catalog, loads the cache file  *)
(* into cache_list, collect_plugins reads the plugin directory and         *)
(* save_catalog writes the cache file.                                     *)
(***************************************************************************)
\* the names of the plugin directory: two that differ in case only, and a
\* third
Paths == {"p", "P", "q"}
Lower(path) == IF path = "P" THEN "p" ELSE path

\* xine_fast_string_cmp: 0 for names that are the same but for the case
xine_fast_string_cmp(a, b) == IF Lower(a) = Lower(b) THEN 0 ELSE 1

\* a comparison of the fingerprint that does not look at the mtime
_fat_node_file_cmp_size(a, b) ==
  IF a.size # b.size THEN 1 ELSE xine_fast_string_cmp(a.path, b.path)

\* _fat_node_file_cmp: 0 when the two are the same file for the cache
_fat_node_file_cmp(a, b) ==
  IF a.size # b.size THEN 1
  ELSE IF a.mtime # b.mtime THEN 1
  ELSE xine_fast_string_cmp(a.path, b.path)

\* what a library of the directory holds
InfoInput == [type |-> "input", id |-> "a", api |-> TRUE, init |-> TRUE,
              special_info |-> "none", priority |-> 1, user |-> 0]
InfoDecoder == [type |-> "audio_decoder", id |-> "b", api |-> TRUE,
                init |-> TRUE, special_info |-> "full", priority |-> 2,
                user |-> 0]
InfoOld == [InfoDecoder EXCEPT !.id = "a", !.api = FALSE]
\* an input plugin whose init gives no class on this machine
InfoProbe == [InfoInput EXCEPT !.id = "b", !.special_info = "full",
                               !.priority = 2]

\* "in", "dec" and "hw" are plugin libraries, "old" has plugins of another
\* interface version only, "noopen" is a file that dlopen turns down
Libs == {"in", "dec", "hw", "old", "noopen"}
xine_plugin_info(lib) ==
  IF lib = "in" THEN <<InfoInput>>
  ELSE IF lib = "dec" THEN <<InfoDecoder, InfoOld, InfoInput>>
  ELSE IF lib = "hw" THEN <<InfoProbe, InfoDecoder, InfoInput>>
  ELSE <<InfoOld>>

\* _load_plugin_class of a node that came from an opened file
class_loads(type, id) == ~(type = "input" /\ id = InfoProbe.id)

\* the types whose new nodes keep FAT_NODE_FLAG_PROBE_CLASS
Probed == {"input", "audio_decoder"}

Absent == [size |-> 0, mtime |-> 0, lib |-> "none"]
FileStates == [size : {1, 2}, mtime : {1, 2}, lib : Libs]

\* a node read back with all that the plugin said
cached_info_asis(d) == [d EXCEPT !.init = FALSE, !.special_info = "full"]

\* a node as save_plugin_list writes it and load_plugin_list reads it: no
\* init, the special info of the node (priority 0 where the plugin gave
\* none)
cached_info(d) ==
  [d EXCEPT !.init = FALSE, !.special_info = "full",
            !.priority = IF d.special_info = "none" THEN 0 ELSE d.priority]

cached_infos(infos) == [k \in 1 .. Len(infos) |-> cached_info(infos[k])]

\* the file of the directory is found in cache_list
cache_search(s, path) ==
  {e \in s.cache_list :
     _fat_node_file_cmp(e, [path |-> path, size |-> s.disk[path].size,
                            mtime |-> s.disk[path].mtime]) = 0}

file_entry(s, path, lib, nodes) ==
  [path |-> path, size |-> s.disk[path].size, mtime |-> s.disk[path].mtime,
   lib_handle |-> lib, nodes |-> nodes]

\* collect_plugins, "case S_IFREG": one library file of the directory;
\* gives the scan and the catalog after it
collect_file(s, c, path, nomem) ==
  LET found == cache_search(s, path)
      t == [s EXCEPT !.todo = @ \ {path}]
  IN IF found # {}
     THEN LET e == CHOOSE x \in found : TRUE
              r == _register_plugins_internal(c, e.infos, TRUE, nomem)
          IN [sc |-> [t EXCEPT !.cache_list = @ \ {e},
                               !.hits = @ \cup {path},
                               !.file_list = @ \cup
                                  {file_entry(s, path, FALSE, Taken(e.infos, r.res, 1))}],
              rg |-> r]
     ELSE IF s.disk[path].lib = "noopen"
     THEN [sc |-> [t EXCEPT !.opened = @ \cup {path}], rg |-> c]
     ELSE LET infos == xine_plugin_info(s.disk[path].lib)
              r == _register_plugins_internal(c, infos, FALSE, nomem)
          IN [sc |-> [t EXCEPT !.opened = @ \cup {path},
                               !.file_list = @ \cup
                                  {file_entry(s, path, TRUE, Taken(infos, r.res, 1))}],
              rg |-> r]

\* _load_required_plugins: a new node whose class does not load leaves its
\* list (the cached nodes are not probed; none of them is one that fails
\* here, such a node is never saved); the counters stay
RECURSIVE probe_list(_, _)
probe_list(type, list) ==
  IF list = <<>> THEN <<>>
  ELSE (IF type \in Probed /\ ~class_loads(type, Head(list).id)
          THEN <<>> ELSE <<Head(list)>>) \o probe_list(type, Tail(list))

load_required_plugins(c) ==
  [c EXCEPT !.lists = [t \in RegTypes |-> probe_list(t, c.lists[t])]]

RECURSIVE probe_infos(_)
probe_infos(infos) ==
  IF infos = <<>> THEN <<>>
  ELSE (IF infos[1].type \in Probed /\ ~class_loads(infos[1].type, infos[1].id)
          THEN <<>> ELSE <<Head(infos)>>) \o probe_infos(Tail(infos))

\* the nodes of the files that are left in the lists
probed_files(s) ==
  {[f EXCEPT !.nodes = probe_infos(@)] : f \in s.file_list}

\* save_plugin_list: a block for every file that has a node in the lists
saved_cache(s) ==
  {[path |-> f.path, size |-> f.size, mtime |-> f.mtime,
    infos |-> cached_infos(f.nodes)] : f \in {g \in s.file_list : g.nodes # <<>>}}

\* a process has not run yet: no cache file, one plugin in the directory
(***************************************************************************)
(* The cache file: save_plugin_list writes the catalog as lines of text,   *)
(* load_plugin_list reads the lines back into cache_list.  A line is a key *)
(* and the characters behind the '='; a "[" line holds a file name, a "#"  *)
(* line is a comment, the line with the empty key is the empty line.       *)
(***************************************************************************)
PLUGIN_INPUT == 1
PLUGIN_AUDIO_DECODER == 3
CacheTypes == {PLUGIN_INPUT, PLUGIN_AUDIO_DECODER}
\* plugin_iface_versions[]: the API that _insert_node asks of a type
plugin_iface_versions(type) == IF type = PLUGIN_INPUT THEN 18 ELSE 16

CACHE_CATALOG_VERSION == 5

DigitChars == <<"0", "1", "2", "3", "4", "5", "6", "7", "8", "9">>
IsDigit(c) == \E d \in 1 .. 10 : DigitChars[d] = c
DigitOf(c) == (CHOOSE d \in 1 .. 10 : DigitChars[d] = c) - 1
\* the digits of 0xffffffff, the value written U32Max
U32MaxChars == <<"4", "2", "9", "4", "9", "6", "7", "2", "9", "5">>

RECURSIVE uint2chars(_)
uint2chars(n) ==
  IF n < 10 THEN <<DigitChars[n + 1]>>
  ELSE Append(uint2chars(n \div 10), DigitChars[(n % 10) + 1])

\* xine_uint32_2str, xine_uint2str: the decimal digits
xine_uint32_2str(n) == IF n = U32Max THEN U32MaxChars ELSE uint2chars(n)
\* xine_int32_2str: a '-' before the digits of a negative number
xine_int32_2str(n) == IF n < 0 THEN <<"-">> \o uint2chars(-n) ELSE uint2chars(n)

RECURSIVE read_digits(_, _)
read_digits(str, v) ==
  IF str = <<>> \/ ~IsDigit(Head(str)) THEN [v |-> v, rest |-> str]
  ELSE read_digits(Tail(str), v * 10 + DigitOf(Head(str)))

\* the characters before the first digit are passed over; neg tells whether
\* the last of them was a '-'
RECURSIVE sign_scan(_, _)
sign_scan(str, neg) ==
  IF str = <<>> THEN [neg |-> FALSE, rest |-> str]
  ELSE IF IsDigit(Head(str)) THEN [neg |-> neg, rest |-> str]
  ELSE sign_scan(Tail(str), Head(str) = "-")

\* xine_str2uint32 (&val): the number at the head of the text and the text
\* behind it; 0 when there is no digit
xine_str2uint32(str) ==
  LET t == sign_scan(str, FALSE).rest
  IN IF Len(t) >= 10 /\ SubSeq(t, 1, 10) = U32MaxChars
     THEN [v |-> U32Max, rest |-> SubSeq(t, 11, Len(t))]
     ELSE read_digits(t, 0)

\* xine_str2int32 (&val)
xine_str2int32(str) ==
  LET t == sign_scan(str, FALSE)
      r == read_digits(t.rest, 0)
  IN [v |-> IF t.neg THEN 0 - r.v ELSE r.v, rest |-> r.rest]

Line(key, val) == [key |-> key, val |-> val]
EmptyLine == Line("", <<>>)
Comment == Line("#", <<>>)

\* node->file == NULL: a plugin of libxine itself or one that the
\* application registered with xine_register_plugins
NoFile == "none"
Builtins == "libxine/builtins"
CacheFiles == {"p", "q"}
\* plugin_file_t: filename, filesize, filemtime
plugin_file(name) ==
  [path |-> name, size |-> 1, mtime |-> IF name = "p" THEN 1 ELSE 2]

\* the nodes that a catalog can hold: of a file or of no file, of two
\* types with the API of the type; an input plugin with a version that is
\* small or 0xffffffff and a priority above or below 0, a decoder with and
\* without supported types
NodeKinds ==
  {[version |-> 1, priority |-> 2], [version |-> 2, priority |-> -1],
   [version |-> U32Max, priority |-> 2]}
CacheNode(file, type, kind) ==
  [file |-> file, type |-> type, API |-> plugin_iface_versions(type),
   version |-> kind.version,
   id |-> IF file = "q" THEN "b" ELSE "a",
   priority |-> kind.priority,
   supported_types |-> IF type # PLUGIN_AUDIO_DECODER THEN <<>>
                       ELSE IF file = "q" THEN <<>> ELSE <<7, 12>>]
FirstKind == [version |-> 1, priority |-> 2]
CacheNodes ==
  {CacheNode(file, PLUGIN_INPUT, kind) :
     file \in CacheFiles \cup {NoFile}, kind \in NodeKinds}
  \cup {CacheNode(file, PLUGIN_AUDIO_DECODER, FirstKind) :
          file \in CacheFiles \cup {NoFile}}

\* save_plugin_list: last_file, last_type, last_api, last_vers before the
\* first node
NoLast == "(plugin_file_t *)1"
SaveStart ==
  [file |-> NoLast, type |-> U32Max, api |-> U32Max, vers |-> U32Max]

\* "supported_types=" and the types with a blank between them; the last
\* blank, or the '=' when there is no type, is overwritten by the newline
RECURSIVE types_text(_)
types_text(types) ==
  IF types = <<>> THEN <<>>
  ELSE IF Len(types) = 1 THEN xine_uint32_2str(types[1])
  ELSE xine_uint32_2str(types[1]) \o <<" ">> \o types_text(Tail(types))

\* save_plugin_list, one node: the lines that it writes and last_* behind it
save_node(node, seen) ==
  LET l1 == IF node.file # seen.file
            THEN [file |-> node.file, type |-> U32Max, api |-> U32Max,
                  vers |-> U32Max]
            ELSE seen
      l2 == IF node.type # l1.type
            THEN [l1 EXCEPT !.type = node.type, !.api = U32Max,
                            !.vers = U32Max]
            ELSE l1
      l3 == IF node.API # l2.api THEN [l2 EXCEPT !.api = node.API] ELSE l2
      l4 == IF node.version # l3.vers THEN [l3 EXCEPT !.vers = node.version]
            ELSE l3
  IN [last |-> l4,
      lines |->
        (IF node.file = seen.file THEN <<>>
         ELSE IF node.file # NoFile
         THEN <<Line("[", <<node.file>>),
                Line("size", xine_uint32_2str(plugin_file(node.file).size)),
                Line("mtime", xine_uint32_2str(plugin_file(node.file).mtime))>>
         ELSE <<Line("[", <<Builtins>>)>>)
        \o (IF node.type # l1.type
            THEN <<Line("type", xine_uint32_2str(node.type))>> ELSE <<>>)
        \o (IF node.API # l2.api
            THEN <<Line("api", xine_uint32_2str(node.API))>> ELSE <<>>)
        \o (IF node.version # l3.vers
            THEN <<Line("version", xine_uint32_2str(node.version))>>
            ELSE <<>>)
        \o <<Line("id", <<node.id>>)>>
        \o (IF node.type = PLUGIN_AUDIO_DECODER
            THEN <<Line("supported_types", types_text(node.supported_types)),
                   Line("decoder_priority", xine_int32_2str(node.priority))>>
            ELSE <<Line("input_priority", xine_int32_2str(node.priority))>>)
        \o <<EmptyLine>>]

\* save_plugin_list: what it hands to fwrite, node after node
RECURSIVE save_list(_, _)
save_list(list, seen) ==
  IF list = <<>> THEN <<>>
  ELSE LET r == save_node(Head(list), seen)
       IN <<r.lines>> \o save_list(Tail(list), r.last)

save_plugin_list(list) == save_list(list, SaveStart)

\* save_catalog: the head of the file
cache_head(vers) ==
  <<Comment, EmptyLine,
    Line("cache_catalog_version", xine_uint32_2str(vers)), EmptyLine>>

\* save_catalog: the fwrite calls, the head and then the lists in the order
\* of the types
cache_chunks(cat) ==
  <<cache_head(CACHE_CATALOG_VERSION)>>
  \o save_plugin_list(cat[PLUGIN_INPUT])
  \o save_plugin_list(cat[PLUGIN_AUDIO_DECODER])

RECURSIVE Flatten(_)
Flatten(chunks) ==
  IF chunks = <<>> THEN <<>> ELSE Head(chunks) \o Flatten(Tail(chunks))

\* the file that save_catalog writes when every call succeeds
save_text(cat) == Flatten(cache_chunks(cat))

\* _key_2_index, and the '[' test before it
KnownKeys ==
  {"id", "api", "size", "type", "mtime", "version", "post_type",
   "config_key", "module_type", "ao_priority", "visual_type", "vo_priority",
   "input_priority", "module_sub_type", "module_priority", "supported_types",
   "decoder_priority", "demuxer_priority", "cache_catalog_version"}
_key_2_index(key) ==
  IF key = "" THEN "flush" ELSE IF key \in KnownKeys THEN key ELSE "NONE"
line_index(line, version_ok) ==
  IF line.key = "[" THEN IF version_ok THEN "filename" ELSE "NONE"
  ELSE _key_2_index(line.key)

\* all_info_t is a union.  Of its members input_info, ao_info, vo_info and
\* demuxer_info begin with their priority and post_info with its type, so
\* these share the first word, written input_priority here; decoder_info
\* begins with the pointer supported_types and has its priority behind it.
\* (module_info and vo_info.visual_type are not modelled.)
FirstWord ==
  {"input_priority", "ao_priority", "vo_priority", "demuxer_priority"}

\* load_plugin_list: its locals before the first line (_fat_node_init)
NoAinfo == [input_priority |-> 0, decoder_priority |-> 0]
LoadStart ==
  [version_ok |-> FALSE, skip |-> FALSE, unloaded |-> FALSE,
   filename |-> NoFile, filesize |-> 0, filemtime |-> 0,
   type |-> 0, API |-> 0, version |-> 0, id |-> NoId,
   supported_types |-> <<>>, ainfo |-> NoAinfo, cfgentries |-> <<>>,
   first_in_file |-> 0, plugins |-> <<>>]

\* "supported_types": numbers until one reads as 0
RECURSIVE load_types(_)
load_types(val) ==
  LET r == xine_str2uint32(val)
  IN IF r.v = 0 THEN <<>> ELSE <<r.v>> \o load_types(r.rest)

\* the priority that _insert_node reads from the special_info of a cached
\* node
cached_priority(type, ainfo) ==
  IF type = PLUGIN_AUDIO_DECODER THEN ainfo.decoder_priority
  ELSE ainfo.input_priority

\* the node that _K_flush makes of the locals
flush_node(l) ==
  [type |-> l.type, API |-> l.API, version |-> l.version, id |-> l.id,
   supported_types |-> l.supported_types, ainfo |-> l.ainfo,
   config_keys |-> l.cfgentries]
flush_file(l) ==
  [path |-> l.filename, size |-> l.filesize, mtime |-> l.filemtime]

\* xine_sarray_add in XINE_SARRAY_MODE_UNIQUE: the index of an entry that
\* compares equal, 0 when there is none
found_file(plugins, file) ==
  IF \E i \in 1 .. Len(plugins) : _fat_node_file_cmp(plugins[i].file, file) = 0
  THEN CHOOSE i \in 1 .. Len(plugins) :
         _fat_node_file_cmp(plugins[i].file, file) = 0
  ELSE 0

\* _K_flush: the node goes behind the last node of its file
flush_chain(l) ==
  LET n == flush_node(l)
      i == IF l.first_in_file # 0 THEN l.first_in_file
           ELSE found_file(l.plugins, flush_file(l))
  IN IF i # 0
     THEN [l EXCEPT !.plugins[i].nodes = Append(@, n), !.first_in_file = i]
     ELSE [l EXCEPT !.plugins = Append(@, [file |-> flush_file(l),
                                          nodes |-> <<n>>]),
                    !.first_in_file = Len(l.plugins) + 1]

\* a flush that forgets type, api and version as well
load_flush_all(l) ==
  IF l.id = NoId THEN l
  ELSE [flush_chain(l) EXCEPT !.id = NoId, !.supported_types = <<>>,
                              !.ainfo = NoAinfo, !.cfgentries = <<>>,
                              !.type = 0, !.API = 0, !.version = 0]

\* a flush that keeps the id
load_flush_keep(l) ==
  IF l.id = NoId THEN l
  ELSE [flush_chain(l) EXCEPT !.supported_types = <<>>, !.ainfo = NoAinfo,
                              !.cfgentries = <<>>]

\* _K_flush: without an id nothing happens; behind the node the id, the
\* supported types, the ainfo and the config keys are reset, the rest stays
\* for the next node
load_flush(l) ==
  IF l.id = NoId THEN l
  ELSE [flush_chain(l) EXCEPT !.id = NoId, !.supported_types = <<>>,
                              !.ainfo = NoAinfo, !.cfgentries = <<>>]

\* a version test that takes every version up to the current one
version_accepted_older(vers) == vers <= CACHE_CATALOG_VERSION

\* "we are slightly backward compatible"
version_accepted(vers) ==
  vers = CACHE_CATALOG_VERSION \/ vers = CACHE_CATALOG_VERSION - 1

\* load_plugin_list: one line
load_line(l, line) ==
  LET index == line_index(line, l.version_ok)
      val == line.val
  IN IF l.unloaded \/ line.key = "#" THEN l
     ELSE IF l.skip /\ index # "filename" THEN l
     ELSE IF ~l.version_ok
     THEN IF index # "cache_catalog_version" THEN l
          ELSE IF version_accepted(xine_str2uint32(val).v)
          THEN [l EXCEPT !.version_ok = TRUE]
          ELSE [l EXCEPT !.unloaded = TRUE]
     ELSE CASE index = "flush" -> load_flush(l)
            [] index = "filename" ->
                 [l EXCEPT !.filename = val[1], !.skip = (val[1] = Builtins),
                           !.first_in_file = 0]
            [] index = "size" -> [l EXCEPT !.filesize = xine_str2uint32(val).v]
            [] index = "mtime" ->
                 [l EXCEPT !.filemtime = xine_str2uint32(val).v]
            [] index = "type" -> [l EXCEPT !.type = xine_str2int32(val).v]
            [] index = "api" -> [l EXCEPT !.API = xine_str2int32(val).v]
            [] index = "id" -> [l EXCEPT !.id = val[1]]
            [] index = "version" ->
                 [l EXCEPT !.version = xine_str2uint32(val).v]
            [] index = "supported_types" ->
                 [l EXCEPT !.supported_types = load_types(val)]
            [] index = "decoder_priority" ->
                 [l EXCEPT !.ainfo.decoder_priority = xine_str2int32(val).v]
            [] index \in FirstWord ->
                 [l EXCEPT !.ainfo.input_priority = xine_str2int32(val).v]
            [] index = "post_type" ->
                 [l EXCEPT !.ainfo.input_priority = xine_str2uint32(val).v]
            [] index = "config_key" ->
                 IF Len(l.cfgentries) < 255
                 THEN [l EXCEPT !.cfgentries = Append(@, val)]
                 ELSE l
            [] OTHER -> l

RECURSIVE load_lines(_, _)
load_lines(l, text) ==
  IF text = <<>> THEN l ELSE load_lines(load_line(l, Head(text)), Tail(text))

\* load_plugin_list: the cache list behind the lines of the file and the
\* flush at the end of the file
load_plugin_list(text) ==
  load_lines(LoadStart, text \o <<EmptyLine>>).plugins

\* load_plugin_list behind the head of a cache file and the line of a
\* plugin file: no line of a block read yet; nodes counts the empty lines
\* that gave a node, made is what the last empty line met
ParseInit ==
  LET l == load_lines(LoadStart,
                      cache_head(CACHE_CATALOG_VERSION)
                        \o <<Line("[", <<"p">>)>>)
  IN [l |-> l, start |-> l, block |-> <<>>, blocks |-> 0, made |-> "none",
      before |-> l]

\* the catalog without nodes; the cache file is absent
NoCacheFile == [exists |-> FALSE, text |-> <<>>]
CacheInit ==
  [cat |-> [type \in CacheTypes |-> <<>>],
   cache |-> NoCacheFile, new |-> NoCacheFile,
   pc |-> "idle", written |-> 0, prev |-> NoCacheFile,
   cache_list |-> <<>>, loaded |-> FALSE, vers |-> 0, place |-> "none",
   lost |-> FALSE, result |-> "none",
   saved_cat |-> [type \in CacheTypes |-> <<>>], saved_lost |-> FALSE]

ScanInit ==
  [disk |-> [path \in Paths |->
               IF path = "p" THEN [size |-> 1, mtime |-> 1, lib |-> "in"]
               ELSE Absent],
   cache_file |-> {}, cache_list |-> {}, file_list |-> {}, todo |-> {},
   opened |-> {}, hits |-> {}, phase |-> "idle", changes |-> 0,
   rescan |-> FALSE, same |-> FALSE, prev |-> RegInit]

HyInit == [on |-> FALSE, fill |-> 0, seq |-> <<>>, nreq |-> 0, ntr |-> 0]

SeqInit ==
  /\ stats = StatsInit /\ lc = LifeInit /\ ctl = CtlInit /\ hy = HyInit
  /\ fi = FiInit
  /\ rg = RegInit
  /\ sc = ScanInit
  /\ cf = CacheInit
  /\ pr = ParseInit

vars == <<catVars, lockVars, nbcVars, seqVars>>

Init == CatInit /\ LockInit /\ NbcInit /\ SeqInit

Next == CatNext

Spec == Init /\ [][Next]_vars

(***************************************************************************)
(* Specification SpecLock: the same catalog with the lookup split at the   *)
(* points where another thread can run.  The lookup thread holds           *)
(* catalog->lock from pthread_mutex_lock to pthread_mutex_unlock and does  *)
(* one iteration of its loop per step; the configuration thread runs       *)
(* _decoder_priority_cb in its three calls (xine_sarray_remove_ptr,        *)
(* xine_sarray_add, map_decoder_list) and takes no lock.  Disposals and    *)
(* the collector take and release the lock within one step.                *)
(***************************************************************************)
lookup_lock(kind, stream_type) ==
  /\ ~crashed
  /\ lk.pc = "idle"
  /\ lock = "none"
  /\ lock' = "lookup"
  /\ lk' = [LkIdle EXCEPT !.pc = "walk", !.kind = kind, !.type = stream_type]
  /\ UNCHANGED <<catVars, cb>>
  /\ UNCHANGED <<nbcVars, seqVars>>

lookup_iter ==
  /\ ~crashed
  /\ lk.pc = "walk"
  /\ LET st == [row |-> decoder_map[lk.kind][lk.type],
                plugin_class |-> plugin_class, lib_handle |-> lib_handle,
                file_ref |-> file_ref, ref |-> ref, inst |-> inst,
                tried |-> <<>>, result |-> NULL, crashed |-> FALSE,
                nfailed |-> <<>>]
     IN IF loop_ends(st, lk.i)
        THEN /\ lk' = [lk EXCEPT !.pc = "leave"]
             /\ UNCHANGED <<decoder_map, plugin_class, lib_handle, file_ref,
                            ref, inst, crashed>>
        ELSE \E r \in get_decoder_iter(lk.kind, st, lk.i) :
               /\ decoder_map' = [decoder_map EXCEPT ![lk.kind][lk.type] = r.st.row]
               /\ plugin_class' = r.st.plugin_class
               /\ lib_handle' = r.st.lib_handle
               /\ file_ref' = r.st.file_ref
               /\ ref' = r.st.ref
               /\ inst' = r.st.inst
               /\ crashed' = r.st.crashed
               /\ lk' = [lk EXCEPT !.pc = IF r.done THEN "leave" ELSE "walk",
                                   !.i = r.i,
                                   !.seen = @ \cup {st.row[lk.i]},
                                   !.again = @ \/ st.row[lk.i] \in lk.seen]
  /\ UNCHANGED <<info, plugin_lists, priority, no_unload, failed, last>>
  /\ UNCHANGED <<lock, cb>>
  /\ UNCHANGED <<nbcVars, seqVars>>

lookup_unlock ==
  /\ ~crashed
  /\ lk.pc = "leave"
  /\ lock' = "none"
  /\ lk' = LkIdle
  /\ UNCHANGED <<catVars, cb>>
  /\ UNCHANGED <<nbcVars, seqVars>>

LookupStart == \E kind \in Kinds, t \in StreamTypes : lookup_lock(kind, t)

\* "if (xine_sarray_remove_ptr (list, node) == ~0) return;"
priority_cb_remove(node, user_prio) ==
  LET kind == info[node].type
      list == plugin_lists[kind]
  IN /\ ~crashed
     /\ cb.pc = "idle"
     /\ node \in Range(list)
     /\ plugin_lists' = [plugin_lists EXCEPT
                           ![kind] = RemoveAt(list, IndexOf(list, node))]
     /\ cb' = [pc |-> "removed", node |-> node, user_prio |-> user_prio]
     /\ UNCHANGED <<info, decoder_map, priority, ref, plugin_class, lib_handle,
                    file_ref, no_unload, inst, failed, last, crashed>>
     /\ UNCHANGED <<lock, lk>>
     /\ UNCHANGED <<nbcVars, seqVars>>

\* "node->node.priority = ...; xine_sarray_add (list, node);"
priority_cb_add ==
  /\ ~crashed
  /\ cb.pc = "removed"
  /\ LET kind == info[cb.node].type
         prio == [priority EXCEPT
                    ![cb.node] = effective_priority(cb.node, cb.user_prio)]
     IN \E added \in xine_sarray_add(plugin_lists[kind], cb.node, prio) :
           /\ priority' = prio
           /\ plugin_lists' = [plugin_lists EXCEPT ![kind] = added]
  /\ cb' = [cb EXCEPT !.pc = "added"]
  /\ UNCHANGED <<info, decoder_map, ref, plugin_class, lib_handle, file_ref,
                 no_unload, inst, failed, last, crashed>>
  /\ UNCHANGED <<lock, lk>>
  /\ UNCHANGED <<nbcVars, seqVars>>

\* "map_decoder_list (node->xine, list, ...decoder_map);"
priority_cb_map ==
  /\ ~crashed
  /\ cb.pc = "added"
  /\ LET kind == info[cb.node].type
     IN decoder_map' = [decoder_map EXCEPT
                          ![kind] = map_decoder_list(plugin_lists[kind], @)]
  /\ cb' = CbIdle
  /\ UNCHANGED <<info, plugin_lists, priority, ref, plugin_class, lib_handle,
                 file_ref, no_unload, inst, failed, last, crashed>>
  /\ UNCHANGED <<lock, lk>>
  /\ UNCHANGED <<nbcVars, seqVars>>

PriorityCbStart ==
  \E node \in Nodes, user_prio \in 0 .. MaxUserPrio :
     priority_cb_remove(node, user_prio)

LockNext ==
  \/ LookupStart
  \/ lookup_iter
  \/ lookup_unlock
  \/ PriorityCbStart
  \/ priority_cb_add
  \/ priority_cb_map
  \/ _x_free_video_decoder
  \/ _x_free_audio_decoder
  \/ _x_free_spu_decoder
  \/ xine_plugins_garbage_collector

SpecLock == Init /\ [][LockNext]_vars

(***************************************************************************)
(* Specification SpecNbc: the network buffer controller.  One thread at a  *)
(* time is inside the callbacks of a queue (the queue calls them with its  *)
(* own lock held); it runs from each pthread_mutex_lock (&this->mutex) to  *)
(* the next pthread_mutex_unlock in one step.  The code below takes a      *)
(* record s of the fields that a step under the mutex reads and writes     *)
(* and gives the set of records the step can leave.  A speed is "pause"    *)
(* (0), "slow" (99.5%), "normal", "fast" (100.5%), or "none" (-1).         *)
(***************************************************************************)

Goto(p, s, pc) == [s EXCEPT !.cbp[p].pc = pc]

\* "speed_change = ++this->speed_change": every caller that is inside the
\* loop of nbc_set_speed now holds an old count
Outdated(c) ==
  IF c.pc \in {"ss_apply", "ss_relock"} THEN [c EXCEPT !.stale = TRUE] ELSE c

\* nbc_set_speed up to its first pthread_mutex_unlock, called by the
\* callback of queue p (t = 0) or by delay thread t (p = "none")
nbc_set_speed(p, t, s, speed_val, ret) ==
  [s EXCEPT
     !.nbc.speed_val = speed_val,
     !.cbp = [q \in Fifos |->
                IF q = p
                THEN [s.cbp[q] EXCEPT !.pc = "ss_apply", !.sv = speed_val,
                                      !.ret = ret, !.stale = FALSE]
                ELSE Outdated(s.cbp[q])],
     !.thr = [u \in ThreadIds |->
                IF u = t
                THEN [s.thr[u] EXCEPT !.pc = "ss_apply", !.sv = speed_val,
                                      !.stale = FALSE]
                ELSE Outdated(s.thr[u])]]

\* nbc_delay_unpause: nbc_set_speed (this, XINE_FINE_SPEED_NORMAL) and a log
nbc_delay_unpause(p, t, s, ret) == nbc_set_speed(p, t, s, "normal", ret)

\* "pthread_mutex_unlock; pthread_join (this->delay.thread, ...);
\*  pthread_mutex_lock": the caller leaves the mutex and comes back at ret
unlock_and_join(p, s, ret) ==
  [s EXCEPT !.cbp[p].pc = "join_call", !.cbp[p].ret = ret]

\* "this->delay.state = NBC_DELAY_READY; if (!pthread_create (...))": a new
\* thread under the first free handle, or the failure branch when MaxThreads
\* threads exist
pthread_create(p, s) ==
  LET free == {t \in ThreadIds : s.thr[t].pc = "none"}
      t == CHOOSE u \in free : \A v \in free : u <= v
  IN IF free # {}
     THEN [s EXCEPT !.thr[t] = [ThrNone EXCEPT !.pc = "start"],
                    !.delay.thread = t, !.delay.state = "RUN",
                    !.cbp[p].pc = "ds_ret"]
     ELSE nbc_delay_unpause(p, 0, [s EXCEPT !.delay.state = "OFF"], "ds_ret")

\* delay.expired says whether "now" has reached delay.base + dvbs_center,
\* the deadline that nbc_delay_set computes.  It has not when the base was
\* taken in this call; in state 7 dvbs_center was set anew; otherwise the
\* deadline is the one of the last call, and time has passed.
DeadlinePassed(p, s) ==
  IF s.cbp[p].br THEN {FALSE}
  ELSE IF s.nbc.dvbspeed = 7 THEN BOOLEAN
  ELSE {s.delay.expired, TRUE}

SameDeadline(p, s) == ~s.cbp[p].br /\ s.nbc.dvbspeed # 7

\* a caller inside nbc_delay_stop that has not returned from it
InStop(c) == c.sin # "none" /\ c.sres = "none"

nbc_delay_set(p, s) ==
  UNION {
    LET s1 == [s EXCEPT
                 !.delay.expired = e,
                 !.thr = [t \in ThreadIds |->
                            IF SameDeadline(p, s) THEN s.thr[t]
                            ELSE [s.thr[t] EXCEPT !.cur = FALSE]],
                 !.cbp = [q \in Fifos |->
                            IF q = p
                            THEN [s.cbp[q] EXCEPT !.br = FALSE]
                            ELSE IF InStop(s.cbp[q])
                                 THEN [s.cbp[q] EXCEPT !.rearm = TRUE]
                                 ELSE s.cbp[q]]]
    IN IF e
       THEN {nbc_delay_unpause(p, 0, s1, "ds_ret")}
       ELSE CASE s.delay.state = "RUN" -> {Goto(p, s1, "ds_ret")}
              [] s.delay.state = "STOP" ->
                   {unlock_and_join(p, s1, "ds_create")}
              [] OTHER -> {pthread_create(p, s1)}
    : e \in DeadlinePassed(p, s)}

nbc_delay_clean(p, s) ==
  IF s.delay.state = "STOP"
  THEN unlock_and_join(p, [s EXCEPT !.delay.state = "JOIN"], "dc_back")
  ELSE Goto(p, s, "dg")

\* "if (this->delay.state == NBC_DELAY_JOIN) this->delay.state = OFF"
nbc_delay_clean_back(p, s) ==
  Goto(p, IF s.delay.state = "JOIN" THEN [s EXCEPT !.delay.state = "OFF"]
          ELSE s, "dg")

\* nbc_delay_stop returns into dvbspeed_close.  On record: another caller
\* has set a deadline meanwhile ("rearmed"), another caller is inside a
\* callback and may still be at the agent ("shared"), or the caller was
\* alone and left the agent off and without a thread ("off") or not ("left")
stop_return(p, s) ==
  [s EXCEPT !.cbp[p].pc = "cl",
            !.cbp[p].sres =
               IF s.cbp[p].rearm THEN "rearmed"
               ELSE IF \E q \in Fifos \ {p} : s.cbp[q].pc # "idle"
                    THEN "shared"
               ELSE IF s.delay.state = "OFF"
                       /\ \A t \in ThreadIds : s.thr[t].pc = "none"
                    THEN "off"
                    ELSE "left"]

\* "case NBC_DELAY_STOP:" of nbc_delay_stop, up to the unlock
stop_join(p, s) ==
  unlock_and_join(p, [s EXCEPT !.delay.state = "JOIN"], "st_back")

nbc_delay_stop(p, s) ==
  LET s1 == [s EXCEPT !.cbp[p].sin = s.delay.state]
  IN CASE s.delay.state = "RUN" ->
            nbc_set_speed(p, 0, [s1 EXCEPT !.delay.state = "JOIN"],
                          "normal", "st_run")
       [] s.delay.state = "STOP" -> stop_join(p, s1)
       [] s.delay.state = "READY" ->
            stop_return(p, [s1 EXCEPT !.delay.state = "OFF"])
       [] OTHER -> stop_return(p, s1)

\* back from nbc_set_speed in "case NBC_DELAY_RUN:"
nbc_delay_stop_run(p, s) ==
  IF s.delay.state # "JOIN" THEN stop_return(p, s) ELSE stop_join(p, s)

\* back from pthread_join in "case NBC_DELAY_STOP:"
nbc_delay_stop_back(p, s) ==
  IF s.delay.state # "JOIN" THEN stop_return(p, s)
  ELSE stop_return(p, [s EXCEPT !.delay.state = "OFF"])

\* "nbc_delay_base (this); speed = 0;": the deadline starts from now, and
\* no thread waits for that deadline yet
nbc_delay_base(p, s) ==
  [s EXCEPT !.cbp[p].speed = "pause", !.cbp[p].br = TRUE,
            !.delay.expired = FALSE,
            !.thr = [t \in ThreadIds |-> [s.thr[t] EXCEPT !.cur = FALSE]]]

\* dvbspeed_put; the fill levels it compares are free, so each threshold
\* is either crossed or not
dvbspeed_put(p, s) ==
  LET d == s.nbc.dvbspeed
      no == Goto(p, s, "fin")
  IN IF not_watched(p, d) THEN {no}
     ELSE CASE d \in {1, 4} ->
                 {no, [s EXCEPT !.nbc.dvbspeed = d + 2,
                                !.cbp[p].speed = "fast", !.cbp[p].pc = "fin"]}
            [] d = 7 ->
                 LET s1 == IF s.clock # "pause"
                           THEN nbc_delay_base(p, s)
                           ELSE s
                 IN {Goto(p, s1, "fin"), Goto(p, s1, "ds")}
            [] d \in {2, 5} -> {no, Goto(p, s, "ds")}
            [] OTHER -> {no}

\* "this->dvbspeed = (fifo_info->type == BUF_VIDEO_BASE) ? 1 : 4;"
dvbspeed_put_armed(p, s) ==
  [s EXCEPT !.nbc.dvbspeed = IF p = "video" THEN 1 ELSE 4,
            !.cbp[p].pc = "fin"]

\* dvbspeed_get after nbc_delay_clean
dvbspeed_get(p, s) ==
  LET d == s.nbc.dvbspeed
      no == Goto(p, s, "fin")
      to(e, speed) == [s EXCEPT !.nbc.dvbspeed = e, !.cbp[p].speed = speed,
                                !.cbp[p].pc = "fin"]
  IN IF not_watched(p, d) THEN {no}
     ELSE CASE d \in {1, 4} -> {no, to(d + 1, "slow")}
            [] d \in {2, 5} -> {no, to(7, "pause")}
            [] d \in {3, 6} -> {no, to(d - 2, "normal")}
            [] OTHER -> {no}

\* dvbspeed_init: "nbc_delay_init (this); ... this->dvbspeed = 7;" for a
\* live input, nothing otherwise
dvbspeed_init(s) ==
  {s, [s EXCEPT !.delay.state = "OFF", !.nbc.dvbspeed = 7]}

\* dvbspeed_close after nbc_delay_stop: "(0xec >> this->dvbspeed) & 1"
dvbspeed_close(p, s) ==
  IF Bit(236, s.nbc.dvbspeed) THEN nbc_set_speed(p, 0, s, "normal", "cl2")
  ELSE Goto(p, s, "cl2")

\* "this->dvbspeed = 0;" and the rest of "case BUF_CONTROL_END:"
control_end(p, s) ==
  LET s1 == [s EXCEPT !.nbc.dvbspeed = 0, !.cbp[p].pc = "fin"]
  IN IF ~s.nbc.enabled THEN s1
     ELSE IF s.nbc.buffering
          THEN [s1 EXCEPT !.nbc.enabled = FALSE, !.nbc.buffering = FALSE,
                          !.cbp[p].speed = "normal"]
          ELSE [s1 EXCEPT !.nbc.enabled = FALSE]

\* "case BUF_CONTROL_START:"
control_start(p, s) ==
  IF s.nbc.enabled THEN {Goto(p, s, "fin")}
  ELSE {[s1 EXCEPT !.cbp[p].pc = "fin",
                   !.cbp[p].speed = IF s1.nbc.dvbspeed = 0 THEN "pause"
                                    ELSE "none"]
          : s1 \in dvbspeed_init([s EXCEPT !.nbc.enabled = TRUE,
                                           !.nbc.buffering = TRUE])}

\* the media buffer branches of nbc_put_cb and nbc_get_cb without dvbspeed
vod_put(p, s) ==
  IF s.nbc.enabled /\ s.nbc.buffering
  THEN {Goto(p, s, "fin"),
        [s EXCEPT !.nbc.buffering = FALSE, !.cbp[p].speed = "normal",
                  !.cbp[p].pc = "fin"]}
  ELSE {Goto(p, s, "fin")}

vod_get(p, s) ==
  IF ~s.nbc.enabled THEN {Goto(p, s, "fin")}
  ELSE IF s.nbc.buffering
       THEN {[s EXCEPT !.cbp[p].speed = "pause", !.cbp[p].pc = "fin"]}
       ELSE {Goto(p, s, "fin"),
             [s EXCEPT !.nbc.buffering = TRUE, !.cbp[p].speed = "pause",
                       !.cbp[p].pc = "fin"]}

\* nbc_alloc_cb with at most FULL_FIFO_MARK buffers free
alloc_body(p, s) ==
  LET d == s.nbc.dvbspeed
  IN IF ~s.nbc.enabled THEN Goto(p, s, "out")
     ELSE IF d # 0
          THEN IF ~Bit(72, d)
               THEN nbc_set_speed(p, 0,
                      [s EXCEPT !.nbc.dvbspeed = IF Bit(6, d) THEN 3 ELSE 6],
                      "fast", "out")
               ELSE Goto(p, s, "out")
          ELSE IF s.nbc.buffering
               THEN nbc_set_speed(p, 0, [s EXCEPT !.nbc.buffering = FALSE],
                                  "normal", "out")
               ELSE Goto(p, s, "out")

\* what the callback does first under the mutex
cb_body(p, s) ==
  LET op == s.cbp[p].op
  IN CASE op = "put_data" ->
            IF s.nbc.dvbspeed # 0 THEN dvbspeed_put(p, s) ELSE vod_put(p, s)
       [] op = "put_start" -> control_start(p, s)
       [] op = "put_end" -> {Goto(p, s, "st")}
       [] op = "get_data" ->
            IF s.nbc.dvbspeed # 0 THEN {Goto(p, s, "dc")} ELSE vod_get(p, s)
       [] op = "alloc" -> {alloc_body(p, s)}
       [] OTHER -> {Goto(p, s, "fin")}

\* "if (speed >= 0) nbc_set_speed (this, speed);"
cb_final_speed(p, s) ==
  IF s.cbp[p].speed # "none"
  THEN nbc_set_speed(p, 0, [s EXCEPT !.cbp[p].speed = "none"],
                     s.cbp[p].speed, "out")
  ELSE Goto(p, s, "out")

\* one piece of code under the mutex, by the place the caller is at
StepHeld(p, s) ==
  LET pc == s.cbp[p].pc
  IN CASE pc = "body" -> cb_body(p, s)
       [] pc = "ds" -> nbc_delay_set(p, s)
       [] pc = "ds_create" ->
            {pthread_create(p, [s EXCEPT !.delay.state = "READY"])}
       [] pc = "ds_ret" -> {dvbspeed_put_armed(p, s)}
       [] pc = "dc" -> {nbc_delay_clean(p, s)}
       [] pc = "dc_back" -> {nbc_delay_clean_back(p, s)}
       [] pc = "dg" -> dvbspeed_get(p, s)
       [] pc = "st" -> {nbc_delay_stop(p, s)}
       [] pc = "st_run" -> {nbc_delay_stop_run(p, s)}
       [] pc = "st_back" -> {nbc_delay_stop_back(p, s)}
       [] pc = "cl" -> {dvbspeed_close(p, s)}
       [] pc = "cl2" -> {control_end(p, s)}
       [] pc = "fin" -> {cb_final_speed(p, s)}
       [] pc = "out" -> {Goto(p, s, "done")}
       [] OTHER -> {}

\* the places where a callback is outside the mutex
Blocked ==
  {"idle", "ss_apply", "ss_relock", "join_call", "joining", "join_relock",
   "done"}

RECURSIVE RunHeld(_, _)
RunHeld(p, s) ==
  IF s.cbp[p].pc \in Blocked THEN {s}
  ELSE UNION {RunHeld(p, s1) : s1 \in StepHeld(p, s)}

HeldState ==
  [nbc |-> nbc, delay |-> delay, cbp |-> cbp, thr |-> thr, clock |-> clock]

Commit(s) ==
  /\ nbc' = s.nbc
  /\ delay' = s.delay
  /\ cbp' = s.cbp
  /\ thr' = s.thr

\* the callback has returned, the queue is done and leaves its lock; what
\* the caller met in nbc_delay_stop stays on record until its next call
Returned(c) ==
  [CbpIdle EXCEPT !.sin = c.sin, !.rearm = c.rearm, !.sres = c.sres]

\* the callback of queue p leaves the mutex, to come back or for good
cb_leave(p, s) ==
  /\ Commit(IF s.cbp[p].pc = "done"
            THEN [s EXCEPT !.cbp[p] = Returned(@)] ELSE s)
  /\ fifo' = [fifo EXCEPT ![p].lock = s.cbp[p].pc # "done"]

\* pthread_mutex_lock (&this->mutex) can return
MutexFree == nbc.mutex = "none" /\ nbc.life = "live"

OpKind(op) ==
  IF op = "alloc" THEN "alloc"
  ELSE IF op \in {"get_data", "get_nop"} THEN "get" ELSE "put"

\* the queue, its lock held, calls a callback that is registered on it; the
\* callback runs from its pthread_mutex_lock to the first place where it
\* leaves the mutex
cb_enter(p, op) ==
  /\ ~nh.halt
  /\ cbp[p].pc = "idle"
  /\ ~fifo[p].lock
  /\ OpKind(op) \in fifo[p].cbs
  /\ MutexFree
  /\ nh.calls < MaxCalls
  /\ nh' = [nh EXCEPT !.calls = @ + 1]
  /\ \E s \in RunHeld(p, [HeldState EXCEPT
                            !.cbp[p] = [CbpIdle EXCEPT !.pc = "body",
                                                       !.op = op]]) :
       cb_leave(p, s)
  /\ UNCHANGED <<clock, cl>>
  /\ UNCHANGED <<catVars, lockVars, seqVars>>

\* a media buffer of the queue's type, BUF_CONTROL_START, an end of stream
\* (BUF_CONTROL_END, BUF_CONTROL_QUIT, a NOP with an end flag), any other
nbc_put_cb(p) ==
  \E op \in {"put_data", "put_start", "put_end", "put_nop"} : cb_enter(p, op)

nbc_get_cb(p) == \E op \in {"get_data", "get_nop"} : cb_enter(p, op)

\* "if (fifo->buffer_pool_num_free <= FULL_FIFO_MARK)"; nothing otherwise
nbc_alloc_cb(p) == cb_enter(p, "alloc")

\* nbc_set_speed outside the mutex: "_x_set_fine_speed (this->stream, ...)"
cb_set_speed_apply(p) ==
  /\ ~nh.halt
  /\ cbp[p].pc = "ss_apply"
  /\ clock' = cbp[p].sv
  /\ cbp' = [cbp EXCEPT ![p].pc = "ss_relock", ![p].sv = "none"]
  /\ UNCHANGED <<nbc, delay, fifo, thr, cl, nh>>
  /\ UNCHANGED <<catVars, lockVars, seqVars>>

\* an nbc_set_speed that applies its own speed once and returns
cb_set_speed_relock_once(p) ==
  /\ ~nh.halt
  /\ cbp[p].pc = "ss_relock"
  /\ MutexFree
  /\ \E s \in RunHeld(p, Goto(p, HeldState, cbp[p].ret)) : cb_leave(p, s)
  /\ UNCHANGED <<clock, cl, nh>>
  /\ UNCHANGED <<catVars, lockVars, seqVars>>

\* "pthread_mutex_lock; if (speed_change == this->speed_change) break;
\*  speed_val = this->speed_val; speed_change = this->speed_change;"
cb_set_speed_relock(p) ==
  /\ ~nh.halt
  /\ cbp[p].pc = "ss_relock"
  /\ MutexFree
  /\ IF cbp[p].stale
     THEN /\ cbp' = [cbp EXCEPT ![p].pc = "ss_apply", ![p].stale = FALSE,
                                ![p].sv = nbc.speed_val]
          /\ UNCHANGED <<nbc, delay, fifo, thr>>
     ELSE \E s \in RunHeld(p, Goto(p, HeldState, cbp[p].ret)) :
            cb_leave(p, s)
  /\ UNCHANGED <<clock, cl, nh>>
  /\ UNCHANGED <<catVars, lockVars, seqVars>>

\* pthread_join reads this->delay.thread after the mutex was left
pthread_join_call(p) ==
  /\ ~nh.halt
  /\ cbp[p].pc = "join_call"
  /\ cbp' = [cbp EXCEPT ![p].pc = "joining", ![p].jt = delay.thread]
  /\ UNCHANGED <<nbc, delay, fifo, clock, thr, cl, nh>>
  /\ UNCHANGED <<catVars, lockVars, seqVars>>

\* pthread_join returns when the thread has ended.  Joining a handle whose
\* thread was joined before is undefined: the call comes back with an
\* error or the process ends.
pthread_join_return(p) ==
  LET t == cbp[p].jt
  IN /\ ~nh.halt
     /\ cbp[p].pc = "joining"
     /\ IF t \in ThreadIds /\ thr[t].pc # "none"
        THEN /\ thr[t].pc = "exited"
             /\ thr' = [thr EXCEPT ![t] = ThrNone]
             /\ nh' = nh
        ELSE /\ \E h \in BOOLEAN : nh' = [nh EXCEPT !.bad_join = TRUE,
                                                    !.halt = h]
             /\ thr' = thr
     /\ cbp' = [cbp EXCEPT ![p].pc = "join_relock", ![p].jt = 0]
     /\ UNCHANGED <<nbc, delay, fifo, clock, cl>>
     /\ UNCHANGED <<catVars, lockVars, seqVars>>

\* the pthread_mutex_lock after pthread_join and what follows
cb_join_relock(p) ==
  /\ ~nh.halt
  /\ cbp[p].pc = "join_relock"
  /\ MutexFree
  /\ \E s \in RunHeld(p, Goto(p, HeldState, cbp[p].ret)) : cb_leave(p, s)
  /\ UNCHANGED <<clock, cl, nh>>
  /\ UNCHANGED <<catVars, lockVars, seqVars>>

(***************************************************************************)
(* nbc_delay_thread.                                                       *)
(***************************************************************************)
\* "if (this->delay.state != NBC_DELAY_JOIN) this->delay.state = STOP;
\*  pthread_mutex_unlock; return NULL;"
thread_exit(t, s) ==
  [s EXCEPT !.thr[t] = [ThrNone EXCEPT !.pc = "exited"],
            !.delay.state = IF @ # "JOIN" THEN "STOP" ELSE @]

\* "while (this->delay.state == NBC_DELAY_RUN)": wait until delay.until
thread_loop(t, s) ==
  IF s.delay.state = "RUN"
  THEN [s EXCEPT !.thr[t].pc = "wait", !.thr[t].cur = TRUE]
  ELSE thread_exit(t, s)

nbc_delay_thread(t) ==
  /\ ~nh.halt
  /\ thr[t].pc = "start"
  /\ MutexFree
  /\ Commit(thread_loop(t, HeldState))
  /\ UNCHANGED <<fifo, clock, cl, nh>>
  /\ UNCHANGED <<catVars, lockVars, seqVars>>

\* pthread_cond_timedwait returns 0: signalled, or woken for no reason
cond_wake(t) ==
  /\ ~nh.halt
  /\ thr[t].pc = "wait"
  /\ MutexFree
  /\ Commit(thread_loop(t, HeldState))
  /\ UNCHANGED <<fifo, clock, cl, nh>>
  /\ UNCHANGED <<catVars, lockVars, seqVars>>

\* pthread_cond_timedwait returns ETIMEDOUT: the deadline the thread waited
\* for is reached; "nbc_delay_unpause (this, 1); break;"
cond_timeout(t) ==
  /\ ~nh.halt
  /\ thr[t].pc = "wait"
  /\ MutexFree
  /\ LET s == [HeldState EXCEPT !.delay.expired = thr[t].cur \/ @]
     IN Commit(nbc_delay_unpause("none", t, s, "none"))
  /\ UNCHANGED <<fifo, clock, cl, nh>>
  /\ UNCHANGED <<catVars, lockVars, seqVars>>

thread_set_speed_apply(t) ==
  /\ ~nh.halt
  /\ thr[t].pc = "ss_apply"
  /\ clock' = thr[t].sv
  /\ thr' = [thr EXCEPT ![t].pc = "ss_relock", ![t].sv = "none"]
  /\ UNCHANGED <<nbc, delay, fifo, cbp, cl, nh>>
  /\ UNCHANGED <<catVars, lockVars, seqVars>>

thread_set_speed_relock(t) ==
  /\ ~nh.halt
  /\ thr[t].pc = "ss_relock"
  /\ MutexFree
  /\ IF thr[t].stale
     THEN /\ thr' = [thr EXCEPT ![t].pc = "ss_apply", ![t].stale = FALSE,
                                ![t].sv = nbc.speed_val]
          /\ UNCHANGED <<nbc, delay, cbp>>
     ELSE Commit(thread_exit(t, HeldState))
  /\ UNCHANGED <<fifo, clock, cl, nh>>
  /\ UNCHANGED <<catVars, lockVars, seqVars>>

\* a delay thread goes for the mutex after xine_nbc_close destroyed it
thread_after_close(t) ==
  /\ ~nh.halt
  /\ nbc.life # "live"
  /\ thr[t].pc \in {"start", "wait", "ss_relock"}
  /\ nh' = [nh EXCEPT !.uaf = TRUE, !.halt = TRUE]
  /\ UNCHANGED <<nbc, delay, fifo, clock, cbp, thr, cl>>
  /\ UNCHANGED <<catVars, lockVars, seqVars>>

(***************************************************************************)
(* xine_nbc_init on a stream that has a controller, and xine_nbc_close.    *)
(***************************************************************************)
Unregister(q, k) == [do |-> "unregister", fifo |-> q, cb |-> k]
Destroy == [do |-> "destroy", fifo |-> "none", cb |-> "none"]
Free == [do |-> "free", fifo |-> "none", cb |-> "none"]

\* a close that destroys the mutex first
close_order_destroy_first ==
  <<Destroy,
    Unregister("video", "alloc"), Unregister("video", "put"),
    Unregister("video", "get"),
    Unregister("audio", "alloc"), Unregister("audio", "put"),
    Unregister("audio", "get"),
    Free>>
\* what xine_nbc_close does after it dropped the last reference
close_order ==
  <<Unregister("video", "alloc"), Unregister("video", "put"),
    Unregister("video", "get"),
    Unregister("audio", "alloc"), Unregister("audio", "put"),
    Unregister("audio", "get"),
    Destroy, Free>>

\* "s->counter.nbc_refs += 1; ... return this;"
xine_nbc_init ==
  /\ ~nh.halt
  /\ nbc.refs > 0
  /\ nbc.refs < MaxRefs
  /\ nbc' = [nbc EXCEPT !.refs = @ + 1]
  /\ UNCHANGED <<delay, fifo, clock, cbp, thr, cl, nh>>
  /\ UNCHANGED <<catVars, lockVars, seqVars>>

\* "s->counter.nbc_refs -= 1; if (refs > 0) return;"
xine_nbc_close ==
  /\ ~nh.halt
  /\ nbc.refs > 0
  /\ cl = 0
  /\ nbc' = [nbc EXCEPT !.refs = @ - 1]
  /\ cl' = IF nbc.refs = 1 THEN 1 ELSE 0
  /\ UNCHANGED <<delay, fifo, clock, cbp, thr, nh>>
  /\ UNCHANGED <<catVars, lockVars, seqVars>>

\* the queue's unregister_*_cb takes the queue's lock, as every call of the
\* queue does, and so waits for a callback that is running
fifo_unregister(q, k) ==
  /\ ~fifo[q].lock
  /\ fifo' = [fifo EXCEPT ![q].cbs = @ \ {k}]

xine_nbc_close_step ==
  /\ ~nh.halt
  /\ cl \in 1 .. Len(close_order)
  /\ LET st == close_order[cl]
     IN CASE st.do = "unregister" ->
               /\ fifo_unregister(st.fifo, st.cb)
               /\ nbc' = nbc
          [] st.do = "destroy" ->
               /\ nbc' = [nbc EXCEPT !.life = "destroyed"]
               /\ fifo' = fifo
          [] OTHER ->
               /\ nbc' = [nbc EXCEPT !.life = "freed"]
               /\ fifo' = fifo
  /\ cl' = cl + 1
  /\ UNCHANGED <<delay, clock, cbp, thr, nh>>
  /\ UNCHANGED <<catVars, lockVars, seqVars>>

NbcNext ==
  \/ \E p \in Fifos : nbc_put_cb(p)
  \/ \E p \in Fifos : nbc_get_cb(p)
  \/ \E p \in Fifos : nbc_alloc_cb(p)
  \/ \E p \in Fifos : cb_set_speed_apply(p)
  \/ \E p \in Fifos : cb_set_speed_relock(p)
  \/ \E p \in Fifos : pthread_join_call(p)
  \/ \E p \in Fifos : pthread_join_return(p)
  \/ \E p \in Fifos : cb_join_relock(p)
  \/ \E t \in ThreadIds : nbc_delay_thread(t)
  \/ \E t \in ThreadIds : cond_wake(t)
  \/ \E t \in ThreadIds : cond_timeout(t)
  \/ \E t \in ThreadIds : thread_set_speed_apply(t)
  \/ \E t \in ThreadIds : thread_set_speed_relock(t)

\* the callbacks and the delay thread beside the consumers; the callbacks
\* are entered MaxCloseCalls times at most
NbcCloseNext ==
  \/ NbcNext /\ nh'.calls <= MaxCloseCalls
  \/ \E t \in ThreadIds : thread_after_close(t)
  \/ xine_nbc_init
  \/ xine_nbc_close
  \/ xine_nbc_close_step

\* the controller beside a catalog that nobody uses
OneCatalog ==
  [info |-> InfoOf(<<"audio", "shared">>),
   lib_handle |-> [f \in Files |-> TRUE],
   no_unload |-> [f \in Files |-> FALSE]]

NbcSpecInit ==
  /\ Init
  /\ info = OneCatalog.info
  /\ lib_handle = OneCatalog.lib_handle
  /\ no_unload = OneCatalog.no_unload

SpecNbc == NbcSpecInit /\ [][NbcNext]_vars

\* the same with the consumers of the stream taking and dropping the
\* controller
SpecNbcClose == NbcSpecInit /\ [][NbcCloseNext]_vars

(***************************************************************************)
(* Specification SpecStats: the fill statistics fed with any levels.       *)
(***************************************************************************)
\* the fill in pts that a caller hands in: all_fill can be negative
FillPts == -1 .. (LevelMax + 1) * LevelUnit

StatsFrame == UNCHANGED <<catVars, lockVars, nbcVars, lc, ctl, hy, fi, rg, sc, cf, pr>>

stats_add(pts) == stats' = nbc_stats_add(stats, pts) /\ StatsFrame

stats_flat(pts) == stats' = nbc_stats_flat(stats, pts) /\ StatsFrame

stats_reset == stats' = nbc_stats_reset(stats) /\ StatsFrame

StatsNext ==
  \/ \E pts \in FillPts : stats_add(pts)
  \/ \E pts \in FillPts : stats_flat(pts)
  \/ stats_reset

SpecStats == NbcSpecInit /\ [][StatsNext]_vars

(***************************************************************************)
(* Specification SpecLife: consumers of one stream take and drop the       *)
(* buffer controller.                                                      *)
(***************************************************************************)
LifeFrame == UNCHANGED <<catVars, lockVars, nbcVars, stats, ctl, hy, fi, rg, sc, cf, pr>>

\* xine_nbc_init under s->counter.lock: the controller of the stream with
\* one more reference, or a new one from calloc with nbc_refs = 1
life_init(c) ==
  /\ lc.con[c].pc = "idle"
  /\ lc.con[c].nbc = NULL
  /\ IF lc.refs > 0
     THEN lc' = [lc EXCEPT !.refs = @ + 1, !.con[c].nbc = lc.nbc]
     ELSE \E k \in Ctls :
            /\ lc.ctl[k].st = "none"
            /\ \A j \in Ctls : j < k => lc.ctl[j].st # "none"
            /\ lc' = [lc EXCEPT !.refs = 1, !.nbc = k,
                                !.ctl[k].st = "alloc",
                                !.con[c] = [pc |-> "setup", nbc |-> k]]
  /\ LifeFrame

\* "this->stream = stream; ... pthread_mutex_init (&this->mutex, NULL);
\*  nbc_stats_reset (this); ..."
life_setup(c) ==
  /\ lc.con[c].pc = "setup"
  /\ lc' = [lc EXCEPT !.ctl[lc.con[c].nbc].st = "ready",
                      !.con[c].pc = "register"]
  /\ LifeFrame

\* the six register_*_cb calls and "return this;"
life_register(c) ==
  LET k == lc.con[c].nbc
  IN /\ lc.con[c].pc = "register"
     /\ lc' = [lc EXCEPT !.ctl[k].st = "live", !.ctl[k].reg = @ + 1,
                         !.on = Append(@, k), !.con[c].pc = "idle"]
     /\ LifeFrame

\* xine_nbc_close under s->counter.lock
life_close(c) ==
  /\ lc.con[c].pc = "idle"
  /\ lc.con[c].nbc # NULL
  /\ IF lc.refs - 1 > 0
     THEN lc' = [lc EXCEPT !.refs = @ - 1, !.con[c].nbc = NULL]
     ELSE lc' = [lc EXCEPT !.refs = 0, !.nbc = NULL,
                          !.ctl[lc.con[c].nbc].st = "closing",
                          !.con[c].pc = "unregister"]
  /\ LifeFrame

\* the queue drops the first registration of the callback function it is
\* given
fifo_unregister_first(on) == Tail(on)

\* the six unregister_*_cb calls of xine_nbc_close
life_unregister(c) ==
  /\ lc.con[c].pc = "unregister"
  /\ lc.on # <<>>
  /\ lc' = [lc EXCEPT !.on = fifo_unregister_first(@),
                      !.con[c].pc = "destroy"]
  /\ LifeFrame

\* "pthread_mutex_destroy (&this->mutex);"
life_destroy(c) ==
  /\ lc.con[c].pc = "destroy"
  /\ lc' = [lc EXCEPT !.ctl[lc.con[c].nbc].st = "destroyed",
                      !.ctl[lc.con[c].nbc].dead = @ + 1,
                      !.con[c].pc = "free"]
  /\ LifeFrame

\* "free (this);"
life_free(c) ==
  /\ lc.con[c].pc = "free"
  /\ lc' = [lc EXCEPT !.ctl[lc.con[c].nbc].st = "freed",
                      !.con[c] = [pc |-> "idle", nbc |-> NULL]]
  /\ LifeFrame

LifeNext ==
  \/ \E c \in Consumers : life_init(c)
  \/ \E c \in Consumers : life_setup(c)
  \/ \E c \in Consumers : life_register(c)
  \/ \E c \in Consumers : life_close(c)
  \/ \E c \in Consumers : life_unregister(c)
  \/ \E c \in Consumers : life_destroy(c)
  \/ \E c \in Consumers : life_free(c)

SpecLife == NbcSpecInit /\ [][LifeNext]_vars

(***************************************************************************)
(* Specification SpecCtl: the callbacks of the controller, one call after  *)
(* the other, with the numbers they compare.                               *)
(***************************************************************************)
CtlFrame == UNCHANGED <<catVars, lockVars, nbcVars, lc, hy, fi, rg, sc, cf, pr>>

Types == {"video", "audio"}
\* fill_pts + out_pts of the queue: the fill levels, a value between two
\* levels and a negative one
AllFill == {l * LevelUnit : l \in Levels} \cup {Center2s + 1, -1}
\* fifo_fill, one value between each two marks that the code compares with
Used == {1, 2, 30, 38, 74, 99}

\* a call begins: nothing requested yet
Call(op) == [c |-> [ctl EXCEPT !.req = <<>>, !.last = op], s |-> stats]

\* the call returns as x
Done(x) == ctl' = x.c /\ stats' = x.s

\* nbc_put_cb with a media buffer of the queue's type while dvbspeed != 0:
\* what it can leave
put_cb(type, all_fill, used) ==
  {seq_final_speed(x) :
     x \in seq_dvbspeed_put(Call("put"), type, all_fill, used)}

\* nbc_get_cb with a media buffer of the queue's type while dvbspeed != 0
get_cb(type, all_fill, used) ==
  seq_final_speed(seq_dvbspeed_get(Call("get"), type, all_fill, used))

ctl_put(type, all_fill, used) ==
  /\ ctl.refs > 0
  /\ ctl.dvbspeed # 0
  /\ \E x \in put_cb(type, all_fill, used) : Done(x)
  /\ CtlFrame

ctl_get(type, all_fill, used) ==
  /\ ctl.refs > 0
  /\ ctl.dvbspeed # 0
  /\ Done(get_cb(type, all_fill, used))
  /\ CtlFrame

\* nbc_put_cb with BUF_CONTROL_START, the input live or not
start_cb(live) == seq_final_speed(seq_control_start(Call("start"), live))

ctl_start(type, live) ==
  /\ ctl.refs > 0
  /\ Done(start_cb(live))
  /\ CtlFrame

\* nbc_put_cb with BUF_CONTROL_END, BUF_CONTROL_QUIT or a NOP with an end
\* flag
ctl_end(type) ==
  /\ ctl.refs > 0
  /\ Done(seq_final_speed(seq_control_end(Call("end"))))
  /\ CtlFrame

ctl_alloc(type) ==
  /\ ctl.refs > 0
  /\ Done(seq_alloc(Call("alloc")))
  /\ CtlFrame

\* xine_nbc_event: "if (stream->counter.nbc_refs <= 0)" nothing, else
\* nbc_refs += 1, the test, and xine_nbc_close (nbc_refs -= 1)
event_cb(fill_pts) ==
  LET x == Call("event")
  IN IF ctl.refs <= 0 THEN x
     ELSE [seq_event([x EXCEPT !.c.refs = @ + 1], fill_pts)
             EXCEPT !.c.refs = @ - 1]

ctl_event(fill_pts) ==
  /\ fill_pts >= 0
  /\ Done(event_cb(fill_pts))
  /\ CtlFrame

\* the delay thread wakes at the deadline
timeout_cb == seq_timeout(Call("timeout"))

ctl_timeout ==
  /\ ctl.refs > 0
  /\ ctl.delay = "RUN"
  /\ Done(timeout_cb)
  /\ CtlFrame

\* the last consumer calls xine_nbc_close after the end of the stream, a
\* consumer calls xine_nbc_init: a new controller
ctl_close ==
  /\ ctl.refs > 0
  /\ ctl.dvbspeed = 0 /\ ~ctl.enabled
  /\ ctl' = [ctl EXCEPT !.refs = 0, !.req = <<>>,
                        !.last = "close"]
  /\ UNCHANGED stats
  /\ CtlFrame

ctl_init ==
  /\ ctl.refs = 0
  /\ ctl' = CtlInit
  /\ stats' = StatsInit
  /\ CtlFrame

CtlNext ==
  \/ \E type \in Types, all_fill \in AllFill, used \in Used :
        ctl_put(type, all_fill, used)
  \/ \E type \in Types, all_fill \in AllFill, used \in Used :
        ctl_get(type, all_fill, used)
  \/ \E type \in Types, live \in BOOLEAN : ctl_start(type, live)
  \/ \E type \in Types : ctl_end(type)
  \/ \E type \in Types : ctl_alloc(type)
  \/ \E fill_pts \in 0 .. DryMark : ctl_event(fill_pts)
  \/ ctl_timeout
  \/ ctl_close
  \/ ctl_init

SpecCtl == NbcSpecInit /\ [][CtlNext]_vars

(***************************************************************************)
(* Specification SpecVod: the callbacks of the controller, one call after  *)
(* the other, for streams that are not live (dvbspeed stays 0).            *)
(***************************************************************************)
\* nbc_put_cb and nbc_get_cb with a media buffer while dvbspeed == 0
vod_put_cb(f) == seq_final_speed(seq_vod_put(Call("put"), f))

vod_get_cb(f) == seq_final_speed(seq_vod_get(Call("get"), f))

ctl_vod_put(type, f) ==
  /\ ctl.refs > 0
  /\ ctl.dvbspeed = 0
  /\ Done(vod_put_cb(f))
  /\ CtlFrame

ctl_vod_get(type, f) ==
  /\ ctl.refs > 0
  /\ ctl.dvbspeed = 0
  /\ Done(vod_get_cb(f))
  /\ CtlFrame

\* a queue as xine_nbc_init finds it: whether the configuration has the
\* entry of its number of buffers, and its buffer_pool_capacity (the
\* default, between the default and its double, the double, the largest)
QueueConfigs ==
  [entry : BOOLEAN,
   capacity : {NumDefault, NumDefault + 1, 2 * NumDefault,
               MaxFactor * NumDefault}]

\* "video_fifo_factor = (double)this->video.fifo->buffer_pool_capacity /
\*  (double)entry->num_default; else video_fifo_factor = 1.0;" as a
\* fraction <<numerator, denominator>>
fifo_factor(q) == IF q.entry THEN <<q.capacity, NumDefault>> ELSE <<1, 1>>

\* f < g for fractions with positive denominators
FactorLess(f, g) == f[1] * g[2] < g[1] * f[2]

\* (uint32_t)((double)DEFAULT_HIGH_WATER_MARK * factor)
times_factor(f) == (HighWaterMark * f[1]) \div f[2]

\* "use the smaller factor": high_water_mark as xine_nbc_init sets it for
\* the video queue v and the audio queue a
nbc_high_water_mark_larger(v, a) ==
  IF FactorLess(fifo_factor(v), fifo_factor(a))
  THEN times_factor(fifo_factor(a))
  ELSE times_factor(fifo_factor(v))

nbc_high_water_mark(v, a) ==
  IF FactorLess(fifo_factor(v), fifo_factor(a))
  THEN times_factor(fifo_factor(v))
  ELSE times_factor(fifo_factor(a))

\* a consumer calls xine_nbc_init after the close: a new controller
vod_init(v, a) ==
  /\ ctl.refs = 0
  /\ ctl' = [CtlInit EXCEPT !.high_water_mark = nbc_high_water_mark(v, a)]
  /\ stats' = StatsInit
  /\ CtlFrame

\* BUF_CONTROL_START of a stream that is not live
ctl_vod_start(type) == ctl.dvbspeed = 0 /\ ctl_start(type, FALSE)

VodNext ==
  \/ \E type \in Types, f \in Computed : ctl_vod_put(type, f)
  \/ \E type \in Types, f \in Computed : ctl_vod_get(type, f)
  \/ \E type \in Types : ctl_vod_start(type)
  \/ \E type \in Types : ctl_end(type)
  \/ \E type \in Types : ctl_alloc(type)
  \/ \E fill_pts \in 0 .. DryMark : ctl_event(fill_pts)
  \/ ctl_close
  \/ \E v \in QueueConfigs, a \in QueueConfigs : vod_init(v, a)

SpecVod == NbcSpecInit /\ [][VodNext]_vars

(***************************************************************************)
(* Specification SpecHyst: a live stream whose video queue only fills.     *)
(* After BUF_CONTROL_START every call is a put of a video buffer with a    *)
(* fill that rises from 0 to 3 * (dvbs_center + dvbs_width); the delay     *)
(* thread runs beside the puts.  Between 30 buffers and 73% of the queue   *)
(* are used, so that it is the fill that decides.                          *)
(***************************************************************************)
HyFrame == UNCHANGED <<catVars, lockVars, nbcVars, lc, fi, rg, sc, cf, pr>>

\* 3 * (center + width) with the values of dvbspeed_init
HyTop == 3 * (Center2s + Width1s)
HyUsed == {u \in Used : u >= 30 /\ ~Over(u, 73)}

\* the call that leaves x is counted
Counted(x) ==
  [hy EXCEPT !.seq = IF x.c.dvbspeed # ctl.dvbspeed
                     THEN Append(@, x.c.dvbspeed) ELSE @,
             !.ntr = IF x.c.dvbspeed # ctl.dvbspeed THEN @ + 1 ELSE @,
             !.nreq = @ + Len(x.c.req)]

hy_start ==
  /\ ~hy.on
  /\ ~ctl.enabled
  /\ Done(start_cb(TRUE))
  /\ hy' = [HyInit EXCEPT !.on = TRUE, !.seq = <<7>>]
  /\ HyFrame

hy_put(rise, used) ==
  LET fill == IF hy.fill + rise > HyTop THEN HyTop ELSE hy.fill + rise
  IN /\ hy.on
     /\ hy.nreq < MaxReq
     /\ \E x \in put_cb("video", fill, used) :
          /\ Done(x)
          /\ hy' = [Counted(x) EXCEPT !.fill = fill]
     /\ HyFrame

hy_timeout ==
  /\ hy.on
  /\ ctl.delay = "RUN"
  /\ Done(timeout_cb)
  /\ hy' = Counted(timeout_cb)
  /\ HyFrame

HystNext ==
  \/ hy_start
  \/ \E rise \in 1 .. MaxRise, used \in HyUsed : hy_put(rise, used)
  \/ hy_timeout

SpecHyst == NbcSpecInit /\ [][HystNext]_vars

(***************************************************************************)
(* The pts of the buffers of one queue: nbc_put_cb and nbc_get_cb keep     *)
(* fill_pts, the play time that the queue holds.                           *)
(***************************************************************************)
FiFrame == UNCHANGED <<catVars, lockVars, nbcVars, stats, lc, ctl, hy, rg, sc, cf, pr>>

InCap(f) ==
  /\ f.fill_pts \in -FillCap .. FillCap
  /\ f.pos_pts \in -FillCap .. FillCap

fi_put_cb(pts) ==
  /\ InCap(pts_put(fi, pts))
  /\ fi' = pts_put(fi, pts)
  /\ FiFrame

fi_get_cb(pts) ==
  /\ InCap(pts_get(fi, pts))
  /\ fi' = pts_get(fi, pts)
  /\ FiFrame

PtsNext ==
  \/ \E pts \in PtsValues : fi_put_cb(pts)
  \/ \E pts \in PtsValues : fi_get_cb(pts)

SpecPts == NbcSpecInit /\ [][PtsNext]_vars

(***************************************************************************)
(* The registrations of a catalog: the plugin scan (a file that was        *)
(* opened), the restore from the cache (the nodes of a cached file) and    *)
(* xine_register_plugins.                                                  *)
(***************************************************************************)
RegFrame == UNCHANGED <<catVars, lockVars, nbcVars, stats, lc, ctl, hy, fi, sc, cf, pr>>

\* the entries that a run registers: sound ones, and ones with one fault
Faults(d) ==
  (IF d.type = "unknown" THEN 1 ELSE 0) + (IF d.id = NoId THEN 1 ELSE 0)
  + (IF d.api THEN 0 ELSE 1) + (IF d.init THEN 0 ELSE 1)
  + (IF d.special_info = "full" THEN 0 ELSE 1)

Infos == {d \in AllInfos :
            /\ Faults(d) <= 1
            /\ Faults(d) = 1 => d.id # "b" /\ d.user = 0
            /\ d.special_info = "nosup" => d.type \in RegDecoders
            /\ d.priority = (IF d.id = "b" THEN 2 ELSE 1)
            /\ d.user # 0 => d.type \in RegDecoders /\ d.id = "a"}

InfoArrays == UNION {[1 .. n -> Infos] : n \in 1 .. MaxInfos}

\* a plugin file that collect_plugins opened, or the array of
\* xine_register_plugins or of the builtins
reg_scan(infos, nomem) ==
  /\ rg' = _register_plugins_internal(rg, infos, FALSE, nomem)
  /\ RegFrame

\* a file found in the cache: the chain of its cached nodes (info->init
\* is not looked at)
reg_cached(infos) ==
  /\ rg' = _register_plugins_internal(rg, infos, TRUE, FALSE)
  /\ RegFrame

RegNext ==
  \/ \E infos \in InfoArrays, nomem \in BOOLEAN : reg_scan(infos, nomem)
  \/ \E infos \in InfoArrays : reg_cached(infos)

SpecReg == NbcSpecInit /\ [][RegNext]_vars

(***************************************************************************)
(* The user priorities of the decoders: engine.decoder_priorities.<id> is  *)
(* read when the decoder is registered and again whenever the user changes *)
(* it.  The configuration takes any integer.                               *)
(***************************************************************************)
UserPrios == -MaxUserPrio .. MaxUserPrio
\* decoder_info.priority of the plugins: small ones, and ones in the range
\* of a multiplied user priority
DefaultPrios == {1, 100 * MaxUserPrio, 100 * MaxUserPrio + 1}

PrioInfoOf(c, d) ==
  [n \in Nodes |-> [InfoOf(c)[n] EXCEPT !.priority = d[n]]]

\* the catalog after the scan with a configuration that held no user
\* priority yet: register_num gave the default 0 for every decoder
PrioInit ==
  /\ info \in {PrioInfoOf(c, d) : c \in Catalogs, d \in [Nodes -> DefaultPrios]}
  /\ priority = [n \in Nodes |-> effective_priority(n, 0)]
  /\ plugin_lists \in [Kinds -> UNION {Perms(S) : S \in SUBSET Nodes}]
  /\ \A k \in Kinds : plugin_lists[k] \in SortedLists(NodesOfKind(k), priority)
  /\ decoder_map = [k \in Kinds |-> map_decoder_list(plugin_lists[k], EmptyMap)]
  /\ ref = [n \in Nodes |-> 0]
  /\ plugin_class = [n \in Nodes |-> FALSE]
  /\ lib_handle = [f \in Files |-> TRUE]
  /\ file_ref = [f \in Files |-> 0]
  /\ no_unload = [f \in Files |-> FALSE]
  /\ inst = [n \in Nodes |-> 0]
  /\ failed = {}
  /\ last = NoOp
  /\ crashed = FALSE
  /\ LockInit /\ NbcInit /\ SeqInit

\* the user sets engine.decoder_priorities.<id>
prio_change(node, user_prio) == _decoder_priority_cb(node, user_prio)

PrioNext == \E node \in Nodes, user_prio \in UserPrios : prio_change(node, user_prio)

SpecPrio == PrioInit /\ [][PrioNext]_vars

(***************************************************************************)
(* The scans of one plugin directory by one process after the other.       *)
(***************************************************************************)
ScanFrame == UNCHANGED <<catVars, lockVars, nbcVars, stats, lc, ctl, hy, fi, cf, pr>>

\* between two processes a file of the directory is written, touched or
\* removed; the directory never holds two names that differ in case only
disk_change(path, st) ==
  /\ sc.phase = "idle"
  /\ sc.changes < MaxChanges
  /\ st # sc.disk[path]
  /\ st # Absent =>
       \A other \in Paths \ {path} :
          Lower(other) = Lower(path) => sc.disk[other] = Absent
  /\ sc' = [sc EXCEPT !.disk[path] = st, !.changes = @ + 1, !.same = FALSE]
  /\ UNCHANGED rg
  /\ ScanFrame

\* _x_scan_plugins of a new process, up to the first collect_plugins:
\* _new_catalog and load_cached_catalog
scan_begin ==
  /\ sc.phase = "idle"
  /\ sc' = [sc EXCEPT !.phase = "scan", !.cache_list = sc.cache_file,
                       !.file_list = {}, !.opened = {}, !.hits = {},
                       !.todo = {path \in Paths : sc.disk[path] # Absent},
                       !.rescan = sc.same, !.prev = RegCatalog(rg)]
  /\ rg' = RegInit
  /\ ScanFrame

\* readdir gives the names of a directory in one order as long as the
\* directory is not changed
PathOrder == <<"p", "P", "q">>
NextFile == PathOrder[CHOOSE i \in 1 .. Len(PathOrder) :
                        /\ PathOrder[i] \in sc.todo
                        /\ \A j \in 1 .. (i - 1) : PathOrder[j] \notin sc.todo]

\* collect_plugins: readdir gives the next file
scan_file ==
  /\ sc.phase = "scan"
  /\ sc.todo # {}
  /\ sc' = collect_file(sc, rg, NextFile, FALSE).sc
  /\ rg' = collect_file(sc, rg, NextFile, FALSE).rg
  /\ ScanFrame

\* the end of _x_scan_plugins: load_required_plugins, and save_catalog
\* unless XINE_FLAG_NO_WRITE_CACHE is set or the cache file could not be
\* written
scan_end(write) ==
  /\ sc.phase = "scan"
  /\ sc.todo = {}
  /\ sc' = [sc EXCEPT !.phase = "idle",
                       !.file_list = probed_files(sc),
                       !.cache_file = IF write
                                        THEN saved_cache([sc EXCEPT !.file_list = probed_files(sc)])
                                        ELSE @,
                       !.same = write]
  /\ rg' = load_required_plugins(rg)
  /\ ScanFrame

ScanNext ==
  \/ \E path \in Paths, st \in FileStates \cup {Absent} : disk_change(path, st)
  \/ scan_begin
  \/ scan_file
  \/ \E write \in BOOLEAN : scan_end(write)

SpecScan == NbcSpecInit /\ [][ScanNext]_vars

(***************************************************************************)
(* The cache file written by one process and read by the next.             *)
(***************************************************************************)
CacheFrame ==
  UNCHANGED <<catVars, lockVars, nbcVars, stats, lc, ctl, hy, fi, rg, sc, pr>>

CacheCount == Len(cf.cat[PLUGIN_INPUT]) + Len(cf.cat[PLUGIN_AUDIO_DECODER])

\* _insert_node puts a node into the list of its type
cache_register(node) ==
  /\ cf.pc = "idle" /\ ~cf.cache.exists /\ ~cf.loaded
  /\ CacheCount < MaxCacheNodes
  /\ cf' = [cf EXCEPT !.cat[node.type] = reg_sarray_add(@, node)]
  /\ CacheFrame

\* save_catalog, every call of it succeeding
cache_save ==
  /\ cf.pc = "idle" /\ ~cf.cache.exists /\ ~cf.loaded
  /\ cf' = [cf EXCEPT !.cache = [exists |-> TRUE, text |-> save_text(cf.cat)],
                      !.vers = CACHE_CATALOG_VERSION, !.place = "before"]
  /\ CacheFrame

\* the records of the catalog in a file whose version line is another one,
\* stands behind the records or is missing
Places == {"before", "after", "none"}
CacheVersions == MinVersion .. MaxVersion
foreign_text(cat, vers, place) ==
  LET records == Flatten(Tail(cache_chunks(cat)))
  IN IF place = "before" THEN cache_head(vers) \o records
     ELSE IF place = "after"
     THEN <<Comment, EmptyLine>> \o records
          \o <<Line("cache_catalog_version", xine_uint32_2str(vers)),
               EmptyLine>>
     ELSE <<Comment, EmptyLine>> \o records

\* the cache file is one that another release of the library left
cache_foreign(vers, place) ==
  /\ cf.pc = "idle" /\ ~cf.cache.exists /\ ~cf.loaded
  /\ place = "none" => vers = MinVersion
  /\ cf' = [cf EXCEPT !.cache = [exists |-> TRUE,
                                 text |-> foreign_text(cf.cat, vers, place)],
                      !.vers = vers, !.place = place]
  /\ CacheFrame

\* load_cached_catalog of the next process
cache_load ==
  /\ cf.pc = "idle" /\ ~cf.loaded
  /\ cf' = [cf EXCEPT !.loaded = TRUE,
                      !.cache_list = IF cf.cache.exists
                                     THEN load_plugin_list(cf.cache.text)
                                     ELSE <<>>]
  /\ CacheFrame

CodecNext ==
  \/ \E node \in CacheNodes : cache_register(node)
  \/ cache_save
  \/ \E vers \in CacheVersions, place \in Places : cache_foreign(vers, place)
  \/ cache_load

SpecCodec == NbcSpecInit /\ [][CodecNext]_vars

(***************************************************************************)
(* save_catalog call by call, with calls that fail and a process that ends *)
(* in the middle.                                                          *)
(***************************************************************************)
\* the nodes of the catalogs that are saved here
SaveNodes ==
  {CacheNode("p", PLUGIN_INPUT, FirstKind),
   CacheNode("q", PLUGIN_AUDIO_DECODER, FirstKind)}

\* a scan finds a plugin
save_register(node) ==
  /\ cf.pc = "idle"
  /\ CacheCount < MaxSaveNodes
  /\ cf' = [cf EXCEPT !.cat[node.type] = reg_sarray_add(@, node)]
  /\ CacheFrame

\* the next process starts with _new_catalog
save_new_catalog ==
  /\ cf.pc = "idle" /\ CacheCount > 0
  /\ cf' = [cf EXCEPT !.cat = CacheInit.cat]
  /\ CacheFrame

\* fopen (newname, "wb"); when it fails (or catalog_filename gives no name)
\* save_catalog returns
save_fopen(ok) ==
  /\ cf.pc = "idle"
  /\ cf' = IF ok
           THEN [cf EXCEPT !.pc = "write", !.written = 0, !.lost = FALSE,
                           !.prev = cf.cache, !.result = "none",
                           !.new = [exists |-> TRUE, text |-> <<>>]]
           ELSE [cf EXCEPT !.result = "nofile", !.prev = cf.cache]
  /\ CacheFrame

\* one fwrite; what it returns is not looked at
save_fwrite(ok) ==
  /\ cf.pc = "write"
  /\ cf.written < Len(cache_chunks(cf.cat))
  /\ cf' = [cf EXCEPT !.written = @ + 1,
                      !.lost = @ \/ ~ok,
                      !.new.text = IF ok
                                   THEN @ \o cache_chunks(cf.cat)[cf.written + 1]
                                   ELSE @]
  /\ CacheFrame

\* fclose (fp)
save_fclose(ok) ==
  /\ cf.pc = "write"
  /\ cf.written = Len(cache_chunks(cf.cat))
  /\ cf' = [cf EXCEPT !.pc = IF ok THEN "rename" ELSE "unlink"]
  /\ CacheFrame

\* rename (newname, oldname)
save_rename(ok) ==
  /\ cf.pc = "rename"
  /\ cf' = IF ok
           THEN [cf EXCEPT !.pc = "idle", !.cache = cf.new,
                           !.new = NoCacheFile, !.result = "saved",
                           !.saved_cat = cf.cat, !.saved_lost = cf.lost]
           ELSE [cf EXCEPT !.pc = "unlink"]
  /\ CacheFrame

\* do_unlink: unlink (newname)
save_unlink ==
  /\ cf.pc = "unlink"
  /\ cf' = [cf EXCEPT !.pc = "idle", !.new = NoCacheFile,
                      !.result = "failed"]
  /\ CacheFrame

\* the process ends inside save_catalog; the files stay as they are
save_crash ==
  /\ cf.pc # "idle"
  /\ cf' = [cf EXCEPT !.pc = "idle", !.result = "crashed"]
  /\ CacheFrame

SaveNext ==
  \/ \E node \in SaveNodes : save_register(node)
  \/ save_new_catalog
  \/ \E ok \in BOOLEAN : save_fopen(ok)
  \/ \E ok \in BOOLEAN : save_fwrite(ok)
  \/ \E ok \in BOOLEAN : save_fclose(ok)
  \/ \E ok \in BOOLEAN : save_rename(ok)
  \/ save_unlink
  \/ save_crash

SpecSave == NbcSpecInit /\ [][SaveNext]_vars

(***************************************************************************)
(* Specification SpecParse: load_plugin_list reads blocks of field lines   *)
(* in every order, each block ended by an empty line.                      *)
(***************************************************************************)
ParseFrame ==
  UNCHANGED <<catVars, lockVars, nbcVars, stats, lc, ctl, hy, fi, rg, sc, cf>>

\* the field lines of a block, one for a key
ParseLines ==
  {Line("type", xine_uint32_2str(PLUGIN_INPUT)),
   Line("version", xine_uint32_2str(2)),
   Line("id", <<"a">>),
   Line("size", xine_uint32_2str(1)),
   Line("supported_types", types_text(<<7, 12>>)),
   Line("decoder_priority", xine_int32_2str(-1)),
   Line("input_priority", xine_int32_2str(2)),
   Line("ao_priority", xine_int32_2str(7)),
   Line("config_key", <<"k">>)}

\* the next line of the file is a field line whose key the block has not
\* yet
parse_field(line) ==
  /\ pr.blocks < MaxBlocks
  /\ Len(pr.block) < MaxBlockLines
  /\ \A i \in 1 .. Len(pr.block) : pr.block[i].key # line.key
  /\ pr' = [pr EXCEPT !.l = load_line(pr.l, line),
                      !.block = Append(@, line)]
  /\ ParseFrame

\* the next line of the file is empty
parse_empty ==
  /\ pr.blocks < MaxBlocks
  /\ pr' = [l |-> load_line(pr.l, EmptyLine),
            start |-> load_line(pr.l, EmptyLine),
            block |-> <<>>, blocks |-> pr.blocks + 1,
            made |-> IF pr.l.id # NoId THEN "node" ELSE "nothing",
            before |-> pr.l]
  /\ ParseFrame

ParseNext ==
  \/ \E line \in ParseLines : parse_field(line)
  \/ parse_empty

SpecParse == NbcSpecInit /\ [][ParseNext]_vars

(***************************************************************************)
(* Properties of the catalog, specification Spec.                          *)
(***************************************************************************)
Row(kind, t) == Entries(decoder_map[kind][t])

\* C1: every successful lookup takes one reference on its node and every
\* disposal gives one back, so a node's ref equals the number of instances
\* of it still held (its value before any acquisition, 0, once all are
\* disposed); ref is never negative.
C1_RefBalance ==
  \A n \in Nodes : ref[n] >= 0 /\ (~crashed => ref[n] = inst[n])

\* two instances of one node are held
C1_Witness ==
  \E n \in Nodes : inst[n] = 2 /\ ref[n] = 2 /\ last.op = "none"

\* C2: in every state a file without library handle backs no node with
\* ref > 0 or with a loaded class, and a step releases a handle only when
\* afterwards the file's ref is 0, every node of the file has ref 0 and the
\* file is not marked no_unload.
C2_Released(f) ==
  \A n \in NodesOfFile(f) : ref[n] = 0 /\ ~plugin_class[n]

C2_ReleaseStep(f) ==
  (lib_handle[f] /\ ~lib_handle'[f]) =>
     /\ file_ref'[f] = 0
     /\ ~no_unload[f]
     /\ \A n \in NodesOfFile(f) : ref[n] = 0 /\ ~plugin_class'[n]

C2_Unload ==
  /\ [](\A f \in Files : ~lib_handle[f] => C2_Released(f))
  /\ [][\A f \in Files : C2_ReleaseStep(f)]_vars

\* the collector released the handle of a file a lookup had loaded
C2_Witness ==
  \E f \in Files : ~lib_handle[f] /\ failed # {} /\ last.op = "none"
                   /\ \E n \in Nodes : inst[n] > 0

\* C3: a decoder whose open_plugin returned NULL in a lookup for stream
\* type t is in no later state an entry of the row of t, whatever lookups,
\* disposals, collections and priority changes follow.
C3_FailedStaysOut ==
  \A p \in failed : p[2] \notin Range(Row(info[p[2]].type, p[1]))

\* the lookup that saw the failure took the decoder out of the row
C3_Witness ==
  \E p \in failed : /\ last.op = "get" /\ last.type = p[1]
                    /\ \E i \in 1 .. Len(last.tried) :
                          last.tried[i] = [node |-> p[2], res |-> "null"]
                    /\ p[2] \notin Range(Row(info[p[2]].type, p[1]))

\* open_plugin returned the value 1 for this candidate
SentinelReturned(e) == e.res \in {"sentinel", "sentinel_used"}

\* C4: in a lookup of any of the three kinds a candidate whose open_plugin
\* returns the sentinel stays in the row, its ref does not change, and the
\* lookup goes on (the candidate is not what the lookup returns).
C4_SentinelTransient ==
  [][last'.op = "get" =>
       \A i \in 1 .. Len(last'.tried) :
          SentinelReturned(last'.tried[i]) =>
             LET n == last'.tried[i].node
             IN /\ n \in Range(Entries(decoder_map'[last'.kind][last'.type]))
                /\ ref'[n] = ref[n]
                /\ last'.result # n]_vars

\* a video lookup went past a candidate that returned the sentinel and
\* took the next one
C4_Witness ==
  /\ last.op = "get" /\ last.kind = "video" /\ Len(last.tried) = 2
  /\ last.tried[1].res = "sentinel" /\ last.tried[2].res = "ok"
  /\ last.tried[1].node \in Range(Row("video", last.type))

\* C5: a lookup that returns tries the entries of the row in array order without
\* skipping any, loads a class only when it is not loaded, stops at the
\* first candidate whose class loads and whose open_plugin succeeds, returns
\* that candidate's instance and raises exactly that node's ref by one.
C5_Step ==
  LET row == Entries(decoder_map[last'.kind][last'.type])
      tr == last'.tried
      res == last'.result
  IN /\ Len(tr) <= Len(row)
     /\ \A i \in 1 .. Len(tr) :
          /\ tr[i].node = row[i]
          /\ i < Len(tr) => tr[i].res # "ok"
          /\ plugin_class[tr[i].node] => tr[i].res \notin {"load_failed", "null_class"}
     /\ res # NULL <=> (tr # <<>> /\ tr[Len(tr)].res = "ok")
     /\ res # NULL =>
          /\ res = tr[Len(tr)].node
          /\ ref' = [ref EXCEPT ![res] = @ + 1]
     /\ res = NULL => ref' = ref /\ Len(tr) = Len(row)

C5_Dispatch == [][(last'.op = "get" /\ ~crashed') => C5_Step]_vars

\* the same for the lookups that test for the sentinel (video and audio)
C5_DispatchTested ==
  [][(last'.op = "get" /\ ~crashed' /\ has_sentinel_test(last'.kind))
        => C5_Step]_vars

\* an audio lookup whose first candidate failed returned the second
C5_Witness ==
  /\ last.op = "get" /\ last.kind = "audio" /\ Len(last.tried) = 2
  /\ last.tried[1].res \in {"load_failed", "null"} /\ last.tried[2].res = "ok"
  /\ last.result = last.tried[2].node

\* C6: in every row of every decoder map two neighbouring entries that are
\* both present are in falling order of node priority.
C6_PriorityOrder ==
  \A k \in Kinds, t \in StreamTypes, i \in Slots :
     (i + 1 \in Slots /\ decoder_map[k][t][i] # NULL
                      /\ decoder_map[k][t][i + 1] # NULL)
        => priority[decoder_map[k][t][i]] >= priority[decoder_map[k][t][i + 1]]

\* a priority change has put the decoder of lower default priority first
C6_Witness ==
  \E k \in Kinds, t \in StreamTypes :
     /\ decoder_map[k][t][0] = 1 /\ decoder_map[k][t][1] = 2
     /\ priority[1] > priority[2]

(***************************************************************************)
(* Properties of the lock discipline, specification SpecLock.              *)
(***************************************************************************)
\* C7: whenever one thread is in the middle of changing a plugin list or a
\* decoder map no other thread is inside a lookup of the same maps; the
\* priority callback never runs between the steps of a lookup's walk.
C7_Serialized ==
  ~(cb.pc # "idle" /\ lk.pc = "walk" /\ info[cb.node].type = lk.kind)

\* the callback rebuilt the row under a walking lookup, which then asked
\* the decoder it had already tried a second time
C7_Witness ==
  lk.pc = "leave" /\ lk.again /\ cb.pc = "idle"


(***************************************************************************)
(* Properties of the delay agent, specification SpecNbc.                   *)
(***************************************************************************)
\* the delay threads that were created and are not joined
Threads == {t \in ThreadIds : thr[t].pc # "none"}

\* C8: under any interleaving of nbc_delay_set, nbc_delay_clean,
\* nbc_delay_stop and the delay thread, at most one delay thread exists
\* (created and not yet joined) at any time.
C8_SingleThread == Cardinality(Threads) <= 1

\* two delay threads that both have not ended
C8_Witness ==
  \E t, u \in ThreadIds :
    /\ t # u
    /\ thr[t].pc \in {"start", "wait"}
    /\ thr[u].pc \in {"start", "wait"}

\* C9: nbc_delay_stop, called in any state of the agent, returns and, when
\* no other caller has armed the agent meanwhile, has left the agent in
\* NBC_DELAY_OFF with no thread left.  Stated for the returns at which no
\* other caller is inside a callback at all.
C9_StopLeavesOff == \A p \in Fifos : cbp[p].sres # "left"

\* nbc_delay_stop that met a thread and left none
C9_Witness ==
  \E p \in Fifos : cbp[p].sin \in {"RUN", "STOP"} /\ cbp[p].sres = "off"

(***************************************************************************)
(* Properties of xine_nbc_close, specification SpecNbcClose.               *)
(***************************************************************************)
\* the step xine_nbc_close is at, after the last reference is dropped
ClosingAt == IF cl \in 1 .. Len(close_order) THEN close_order[cl].do
             ELSE "none"

\* C10: xine_nbc_close unregisters the alloc, put and get callbacks of both
\* queues before it destroys the mutex, does not hold the mutex while it
\* unregisters, and no callback is inside the controller once the mutex is
\* destroyed or the memory freed.
C10_Teardown ==
  /\ ClosingAt = "unregister" => nbc.mutex = "none" /\ nbc.life = "live"
  /\ nbc.life # "live" =>
       \A q \in Fifos : /\ fifo[q].cbs = {}
                        /\ ~fifo[q].lock
                        /\ cbp[q].pc = "idle"

\* the controller is closed and freed after callbacks had run on it
C10_Witness ==
  /\ nbc.life = "freed"
  /\ nh.calls > 0
  /\ \A q \in Fifos : fifo[q].cbs = {}

(***************************************************************************)
(* Properties of the fill statistics, specification SpecStats.             *)
(***************************************************************************)
\* the minimum of the history by a scan of all its slots
NaiveMin ==
  CHOOSE v \in Levels :
    /\ \E u \in HistSlots : stats.hist[u] = v
    /\ \A u \in HistSlots : stats.hist[u] >= v

\* C19: num[v] is the number of history slots that hold v, min is the
\* smallest level in the history, and after nbc_stats_add the value given
\* back is that minimum in pts.
C19_RecentMin ==
  /\ \A v \in Levels :
       stats.num[v] = Cardinality({u \in HistSlots : stats.hist[u] = v})
  /\ stats.min = NaiveMin
  /\ stats.op = "add" => stats.ret = NaiveMin * LevelUnit

\* the lowest level has left the history and the minimum went up
C19_Witness ==
  /\ stats.op = "add"
  /\ stats.min > 0
  /\ \E u \in HistSlots : stats.hist[u] > stats.min
  /\ stats.hist[stats.hpos] > stats.min

\* the step at which a put of BUF_CONTROL_END (BUF_CONTROL_QUIT, a NOP with
\* an end flag) on queue p returns
EndReturns(p) ==
  /\ \/ cb_enter(p, "put_end")
     \/ cbp[p].op = "put_end" /\ cb_set_speed_relock(p)
     \/ cbp[p].op = "put_end" /\ cb_join_relock(p)
  /\ cbp'[p].pc = "idle"

\* no BUF_CONTROL_START was handled since the end of stream: the controller
\* is still disabled, and the media buffers of both queues pass it by
EndStands(p) == EndReturns(p) /\ ~nbc'.enabled

EndOff == nbc.dvbspeed = 0
EndAgentStopped == delay.state = "OFF" /\ Threads = {}
EndNormal == nbc.speed_val = "normal"

\* C12: a put of BUF_CONTROL_END, BUF_CONTROL_QUIT or a NOP with an end
\* flag on either queue, in any dvbspeed state and any state of the delay
\* agent, leaves dvbspeed = 0, the delay agent stopped and normal as the
\* last speed requested.  Stated for the returns that find the controller
\* still disabled.
C12_StreamEnd ==
  [][\A p \in Fifos :
       EndStands(p) => (EndOff /\ EndAgentStopped /\ EndNormal)']_vars

\* the controller when the callbacks of the two queues never overlap: a
\* callback is entered only when no caller is inside another one (the delay
\* thread still runs beside them)
NbcSerialNext ==
  NbcNext /\ (nh'.calls # nh.calls => \A q \in Fifos : cbp[q].pc = "idle")

SpecNbcSerial == NbcSpecInit /\ [][NbcSerialNext]_vars

\* C12 without overlap, under SpecNbcSerial: every end of stream leaves
\* dvbspeed = 0, the agent stopped and normal as the last speed requested.
C12_Serial ==
  [][\A p \in Fifos :
       EndReturns(p) => (EndOff /\ EndAgentStopped /\ EndNormal)']_vars

\* an end of stream that met the delay thread and left all as stated
C12_Witness ==
  \E p \in Fifos :
     /\ cbp[p].pc = "idle"
     /\ cbp[p].sin \in {"RUN", "STOP"}
     /\ ~nbc.enabled
     /\ EndOff /\ EndAgentStopped /\ EndNormal

(***************************************************************************)
(* Properties of the controller's life, specification SpecLife.            *)
(***************************************************************************)
\* the controllers that were created and are not freed
Existing == {k \in Ctls : lc.ctl[k].st \notin {"none", "freed"}}

\* C11: for any interleaving of xine_nbc_init and xine_nbc_close by the
\* consumers of a stream, at most one controller exists for the stream.
C11_OneController == Cardinality(Existing) <= 1

\* a new controller has its callbacks on the queues while the one before
\* it is not yet unregistered
C11_Witness ==
  /\ Len(lc.on) = 2
  /\ \E c \in Consumers : lc.con[c].pc = "unregister"

\* C11, the counting: an init that finds a controller gives that one back
\* and adds one reference, nbc_refs is the number of consumers that hold
\* the controller, a controller registers its callbacks once and is
\* destroyed once, by the close that took nbc_refs from 1 to 0.
C11_Counted ==
  /\ lc.refs = Cardinality({c \in Consumers :
                              lc.con[c].nbc # NULL
                              /\ lc.con[c].pc \in {"idle", "setup",
                                                   "register"}})
  /\ \A c \in Consumers :
       lc.con[c].nbc # NULL /\ lc.con[c].pc \in {"idle", "setup", "register"}
         => lc.con[c].nbc = lc.nbc
  /\ \A k \in Ctls : lc.ctl[k].reg <= 1 /\ lc.ctl[k].dead <= 1
  /\ \A k \in Ctls : lc.ctl[k].st \in {"closing", "destroyed", "freed"}
                        => lc.nbc # k
  /\ lc.refs = 0 <=> lc.nbc = NULL

(***************************************************************************)
(* Properties of the live mode, specification SpecCtl.  They are stated    *)
(* for every state the controller reaches and every buffer that the next   *)
(* call can bring: x is what the call leaves.                              *)
(***************************************************************************)
\* NORMAL (1) for the video queue, NORMAL_AUDIO (4) for the audio queue
NormalState(type) == IF type = "video" THEN 1 ELSE 4

\* the states in which dvbspeed watches the queue of this type
WatchedIn(type) == IF type = "video" THEN {1, 2, 3, 7} ELSE {4, 5, 6, 7}

\* the call that left x has requested this speed
Asked(x, speed) == \E k \in 1 .. Len(x.c.req) : x.c.req[k] = speed

\* the statistics after nbc_stats_reset: all of the history at level 0
StatsAreReset(st) ==
  /\ st.min = 0
  /\ \A u \in HistSlots : st.hist[u] = 0
  /\ \A v \in Levels : st.num[v] = IF v = 0 THEN NBC_HSIZE_NUM ELSE 0

\* C13 as stated: in PAUSED_PREBUFFERING (7) a media buffer put computes
\* the deadline and sets normal speed at once or arms the delay agent, and
\* moves to NORMAL (1) for video or NORMAL_AUDIO (4) for audio.
C13_FirstPut ==
  \A type \in Types, all_fill \in AllFill, used \in Used :
    \A x \in put_cb(type, all_fill, used) :
      ctl.refs > 0 /\ ctl.dvbspeed = 7
        => /\ x.c.dvbspeed = NormalState(type)
           /\ x.c.delay = "RUN" \/ Asked(x, "normal")

\* C13 as the code has it: in state 7 a media buffer put pauses the clock
\* when it runs; only when fill_pts + out_pts is above dvbs_center or more
\* than 73% of the buffers are used it sets dvbs_center (2 s, for video up
\* to 3 s), sets normal speed at once or arms the delay agent, and moves to
\* 1 (video) or 4 (audio); otherwise it stays in 7 and leaves the agent.
C13_Prebuffer ==
  \A type \in Types, all_fill \in AllFill, used \in Used :
    \A x \in put_cb(type, all_fill, used) :
      ctl.refs > 0 /\ ctl.dvbspeed = 7
        => /\ ctl.speed # "pause" => Asked(x, "pause") /\ x.c.speed = "pause"
           /\ IF all_fill > ctl.dvbs_center \/ 100 * used > 73 * Capacity
              THEN /\ x.c.dvbspeed = NormalState(type)
                   /\ x.c.delay = "RUN" \/ Asked(x, "normal")
                   /\ x.c.dvbs_center >= 2 * PtsPerSecond
                   /\ x.c.dvbs_center < 3 * PtsPerSecond
                   /\ type = "audio" => x.c.dvbs_center = 2 * PtsPerSecond
              ELSE /\ x.c.dvbspeed = 7
                   /\ x.c.delay = ctl.delay
                   /\ ~Asked(x, "normal")
                   /\ x.c.dvbs_center = ctl.dvbs_center

\* the first video buffer of a live stream came with enough fill: the
\* clock is paused, the agent armed, the state NORMAL
C13_Witness ==
  /\ ctl.last = "put"
  /\ ctl.dvbspeed = 1
  /\ ctl.delay = "RUN"
  /\ ctl.req = <<"pause">>

\* the recent-minimum fill that a call in the states 1 to 6 compares: what
\* nbc_stats_add gives for the buffer's fill
RecentMin(all_fill) == nbc_stats_add(stats, all_fill).ret

\* the call has left state and speed alone and requested nothing
Untouched(x) ==
  x.c.dvbspeed = ctl.dvbspeed /\ x.c.speed = ctl.speed /\ x.c.req = <<>>

\* C14 as stated: in NORMAL* (1 or 4) a put of the watched queue with the
\* recent-minimum fill above dvbs_center + dvbs_width, or more than 98% of
\* the buffers used, requests 100.5% and moves to SLOW_FILL* (2 for video,
\* 5 for audio); otherwise state and speed are unchanged.
C14_SlowFill ==
  \A type \in Types, all_fill \in AllFill, used \in Used :
    \A x \in put_cb(type, all_fill, used) :
      ctl.refs > 0 /\ ctl.dvbspeed = NormalState(type)
        => IF RecentMin(all_fill) > ctl.dvbs_center + ctl.dvbs_width
              \/ 100 * used > 98 * Capacity
           THEN x.c.req = <<"fast">>
                /\ x.c.dvbspeed = (IF type = "video" THEN 2 ELSE 5)
           ELSE Untouched(x)

\* C14 as the code has it: the same put requests 100.5% and moves to
\* FAST_DRAIN* (3 for video, 6 for audio); otherwise state and speed are
\* unchanged.
C14_FastDrain ==
  \A type \in Types, all_fill \in AllFill, used \in Used :
    \A x \in put_cb(type, all_fill, used) :
      ctl.refs > 0 /\ ctl.dvbspeed = NormalState(type)
        => IF RecentMin(all_fill) > ctl.dvbs_center + ctl.dvbs_width
              \/ 100 * used > 98 * Capacity
           THEN x.c.req = <<"fast">>
                /\ x.c.dvbspeed = (IF type = "video" THEN 3 ELSE 6)
           ELSE Untouched(x)

\* a put has taken the state from NORMAL_AUDIO to 6 because of the fill,
\* with few buffers used
C14_Witness ==
  /\ ctl.last = "put"
  /\ ctl.dvbspeed = 6
  /\ ctl.req = <<"fast">>
  /\ stats.op = "add"
  /\ stats.ret > ctl.dvbs_center + ctl.dvbs_width

\* C15 as stated: in SLOW_FILL* (2/5) and FAST_DRAIN* (3/6) a get of the
\* watched queue with fill below dvbs_center - dvbs_width and less than 38%
\* of the buffers used requests normal speed and moves to NORMAL* (1 or
\* 4).  Fill is taken as both the buffer's fill and the recent minimum.
C15_BackToNormal ==
  \A type \in Types, all_fill \in AllFill, used \in Used :
    LET x == get_cb(type, all_fill, used)
    IN ctl.refs > 0 /\ ctl.dvbspeed \in WatchedIn(type) \ {1, 4, 7}
       /\ all_fill < ctl.dvbs_center - ctl.dvbs_width
       /\ RecentMin(all_fill) < ctl.dvbs_center - ctl.dvbs_width
       /\ 100 * used < 38 * Capacity
         => x.c.req = <<"normal">> /\ x.c.dvbspeed = NormalState(type)

\* C15 as the code has it: in FAST_DRAIN* (3/6) a get of the watched queue
\* with a recent-minimum fill that is not 0 and below dvbs_center, and less
\* than 73% of the buffers used, requests normal speed and moves to
\* NORMAL*, any other get leaves state and speed; in SLOW_FILL* (2/5) no
\* get requests normal speed or moves to NORMAL*: it is a put with the
\* recent-minimum fill above dvbs_center, or more than 73% of the buffers
\* used, that moves to NORMAL*.
C15_Return ==
  \A type \in Types, all_fill \in AllFill, used \in Used :
    LET x == get_cb(type, all_fill, used)
    IN /\ ctl.refs > 0 /\ ctl.dvbspeed \in WatchedIn(type) \cap {3, 6}
            => IF RecentMin(all_fill) # 0
                  /\ RecentMin(all_fill) < ctl.dvbs_center
                  /\ 100 * used < 73 * Capacity
               THEN x.c.req = <<"normal">>
                    /\ x.c.dvbspeed = NormalState(type)
               ELSE Untouched(x)
       /\ ctl.refs > 0 /\ ctl.dvbspeed \in WatchedIn(type) \cap {2, 5}
            => /\ x.c.dvbspeed \in {ctl.dvbspeed, 7}
               /\ ~Asked(x, "normal")
               /\ \A y \in put_cb(type, all_fill, used) :
                    y.c.dvbspeed = NormalState(type)
                      <=> (RecentMin(all_fill) > ctl.dvbs_center
                           \/ 100 * used > 73 * Capacity)

\* a get has taken the state from FAST_DRAIN (3) back to NORMAL (1)
C15_Witness ==
  /\ ctl.last = "get"
  /\ ctl.dvbspeed = 1
  /\ ctl.req = <<"normal">>

\* C16: in state 2 or 5 a get of the watched queue that finds at most one
\* buffer used resets the fill histogram (all of it at level 0, min 0),
\* requests speed 0 and moves to PAUSED_PREBUFFERING (7); with more than
\* one buffer used the state stays and no speed is requested.
C16_SignalLost ==
  \A type \in Types, all_fill \in AllFill, used \in Used :
    LET x == get_cb(type, all_fill, used)
    IN ctl.refs > 0 /\ ctl.dvbspeed \in WatchedIn(type) \cap {2, 5}
         => IF used <= 1
            THEN /\ StatsAreReset(x.s)
                 /\ x.c.req = <<"pause">>
                 /\ x.c.dvbspeed = 7
            ELSE Untouched(x) /\ x.s = stats

\* a get has found the audio queue empty in state 5
C16_Witness ==
  /\ ctl.last = "get"
  /\ ctl.dvbspeed = 7
  /\ ctl.req = <<"pause">>
  /\ stats.op = "reset"

\* C17: xine_nbc_event (XINE_NBC_EVENT_AUDIO_DRY) with audio fill_pts below
\* the mark in state 4, 5 or 6 moves to PAUSED_PREBUFFERING (7), resets
\* the statistics and requests speed 0; with more fill, in the states 0 to
\* 3 and 7, and with no controller attached (nbc_refs <= 0) state and
\* speed are unchanged; nbc_refs is the same after the event as before.
C17_AudioDry ==
  \A fill_pts \in 0 .. DryMark :
    LET x == event_cb(fill_pts)
    IN /\ x.c.refs = ctl.refs
       /\ IF ctl.refs > 0 /\ fill_pts < DryMark /\ ctl.dvbspeed \in {4, 5, 6}
          THEN /\ x.c.dvbspeed = 7
               /\ StatsAreReset(x.s)
               /\ x.c.req = <<"pause">>
          ELSE Untouched(x) /\ x.s = stats

\* the event has paused a stream that was in an audio state
C17_Witness ==
  /\ ctl.last = "event"
  /\ ctl.dvbspeed = 7
  /\ ctl.req = <<"pause">>
  /\ ctl.refs = 1

(***************************************************************************)
(* Properties of the filling live queue, specification SpecHyst.           *)
(***************************************************************************)
IsPrefix(a, b) == Len(a) <= Len(b) /\ \A k \in 1 .. Len(a) : a[k] = b[k]

\* C18 as stated: while the fill rises, the dvbspeed states are PAUSED_
\* PREBUFFERING (7), NORMAL (1), SLOW_FILL (2) in this order, and when the
\* fill is at its top as many speeds were requested as the state changed.
C18_Hysteresis ==
  hy.on => /\ IsPrefix(hy.seq, <<7, 1, 2>>)
           /\ hy.fill = HyTop => hy.nreq = hy.ntr

\* C18 as the code has it: the states are 7, 1, 3 (FAST_DRAIN) in this
\* order, and the speed requests are at most one more than the state
\* changes and never fewer, whatever the number of puts: the first put
\* pauses without a state change, the change 7 -> 1 unpauses (at once, or
\* the delay thread does at the deadline), the change 1 -> 3 requests
\* 100.5%.
C18_FillingQueue ==
  hy.on => /\ IsPrefix(hy.seq, <<7, 1, 3>>)
           /\ hy.ntr <= hy.nreq
           /\ hy.nreq <= hy.ntr + 1

\* the queue has filled: 7, 1, 3 with three speed requests
C18_Witness ==
  /\ hy.on
  /\ hy.fill = HyTop
  /\ hy.seq = <<7, 1, 3>>
  /\ hy.nreq = 3
  /\ ctl.dvbspeed = 3

(***************************************************************************)
(* Buffering of a stream that is not live (dvbspeed == 0).                 *)
(***************************************************************************)
\* the controller of an enabled stream that is not live is buffering
VodBuffering == ctl.refs > 0 /\ ctl.enabled /\ ctl.dvbspeed = 0 /\ ctl.buffering

Both(f) == f.has_video /\ f.has_audio

BothReached(f) ==
  Both(f) /\ f.vlen > ctl.high_water_mark /\ f.alen > ctl.high_water_mark

\* x has left buffering: buffering = 0, progress 100 and normal speed
\* requested
LeftBuffering(x) ==
  ~x.c.buffering /\ x.c.progress = 100 /\ x.c.speed = "normal"
    /\ x.c.req = <<"normal">>

\* a put with both streams present leaves buffering if both lengths exceed
\* the mark, and otherwise stays in it and requests no speed; a get stays in
\* it and requests speed 0
PutsAndGets ==
  VodBuffering =>
    /\ ctl.speed = "pause"
    /\ \A f \in Computed :
         /\ BothReached(f) => LeftBuffering(vod_put_cb(f))
         /\ (Both(f) /\ ~BothReached(f)) =>
              /\ vod_put_cb(f).c.buffering
              /\ vod_put_cb(f).c.req = <<>>
              /\ vod_put_cb(f).c.speed = "pause"
         /\ vod_get_cb(f).c.buffering
         /\ vod_get_cb(f).c.req = <<"pause">>

\* a step that ends the buffering
LeavesBuffering == VodBuffering /\ ~ctl'.buffering

\* C20 as stated: while a stream that is not live is buffering, the speed
\* requested is 0, and with audio and video present the buffering ends
\* (buffering = 0, normal speed, progress 100) only by a put that finds both
\* fifo lengths above high_water_mark.
C20_OnlyHighWater ==
  /\ []PutsAndGets
  /\ [][LeavesBuffering =>
          (ctl'.last = "put" /\ LeftBuffering([c |-> ctl']))]_vars

\* C20, amended: while a stream that is not live is buffering, the speed
\* requested is 0; a put with audio and video present ends the buffering
\* exactly when both fifo lengths exceed high_water_mark; beside a put only
\* nbc_alloc_cb with at most FULL_FIFO_MARK buffers free and the end of the
\* stream end it; whatever ends it leaves buffering = 0, progress 100 and
\* normal speed requested.
C20_Buffering ==
  /\ []PutsAndGets
  /\ [][LeavesBuffering =>
          (ctl'.last \in {"put", "alloc", "end"}
             /\ LeftBuffering([c |-> ctl']))]_vars

\* a put has ended the buffering of a stream that is not live and goes on
C20_Witness ==
  /\ ctl.last = "put" /\ ctl.enabled /\ ctl.dvbspeed = 0
  /\ LeftBuffering([c |-> ctl])

(***************************************************************************)
(* high_water_mark of a new controller, specification SpecVod.             *)
(***************************************************************************)
\* the queue has twice the default number of buffers
Doubled(q) == q.entry /\ q.capacity = 2 * NumDefault

\* the queue has the default number of buffers, or no entry
Single(q) == ~q.entry \/ q.capacity = NumDefault

\* C21 as stated: when a queue has twice the default number of buffers,
\* xine_nbc_init sets high_water_mark to 2 x DEFAULT_HIGH_WATER_MARK.
C21_DoubledQueue ==
  ctl.refs = 0 =>
    \A v \in QueueConfigs, a \in QueueConfigs :
      (Doubled(v) \/ Doubled(a))
        => nbc_high_water_mark(v, a) = 2 * HighWaterMark

\* C21 as the code has it: high_water_mark is DEFAULT_HIGH_WATER_MARK times
\* the smaller of the two queues' factors: 2 x DEFAULT_HIGH_WATER_MARK when
\* both queues have twice the default number of buffers, and DEFAULT_HIGH_
\* WATER_MARK when one queue is doubled and the other has the default
\* number or no configuration entry.
C21_SmallerFactor ==
  ctl.refs = 0 =>
    \A v \in QueueConfigs, a \in QueueConfigs :
      /\ (Doubled(v) /\ Doubled(a))
           => nbc_high_water_mark(v, a) = 2 * HighWaterMark
      /\ ((Doubled(v) /\ Single(a)) \/ (Single(v) /\ Doubled(a)))
           => nbc_high_water_mark(v, a) = HighWaterMark
      /\ nbc_high_water_mark(v, a) <= times_factor(fifo_factor(v))
      /\ nbc_high_water_mark(v, a) <= times_factor(fifo_factor(a))

\* xine_nbc_init has made a controller with the doubled mark, and a stream
\* that is not live buffers against it
C21_Witness ==
  /\ ctl.refs > 0
  /\ ctl.high_water_mark = 2 * HighWaterMark
  /\ ctl.enabled /\ ctl.buffering /\ ctl.dvbspeed = 0

(***************************************************************************)
(* The sanity of the pts, specification SpecPts.                           *)
(***************************************************************************)
\* the difference of two pts after at most one correction of the wrap
OneWrap(pts, prev) ==
  IF pts - prev < -MaxDiff THEN pts - prev + PtsWrap
  ELSE IF pts - prev > MaxDiff THEN pts - prev - PtsWrap
  ELSE pts - prev

Small(d) == -MaxDiff <= d /\ d <= MaxDiff

PutSane(f, pts) ==
  LET r == pts_put(f, pts)
      d == OneWrap(pts, f.last_in_pts) IN
    /\ r.last_in_pts = pts
    /\ r.last_out_pts = f.last_out_pts
    /\ IF f.last_in_pts # 0 /\ Small(d)
         THEN r.fill_pts = f.fill_pts + d /\ r.pos_pts = f.pos_pts + d
         ELSE r.fill_pts = f.fill_pts /\ r.pos_pts = f.pos_pts
    /\ Small(r.fill_pts - f.fill_pts)

GetSane(f, pts) ==
  LET r == pts_get(f, pts)
      d == OneWrap(pts, f.last_out_pts) IN
    /\ r.last_out_pts = pts
    /\ r.last_in_pts = f.last_in_pts
    /\ IF f.last_out_pts # 0 /\ Small(d)
         THEN r.fill_pts = f.fill_pts - d
         ELSE r.fill_pts = f.fill_pts
    /\ r.pos_pts = f.pos_pts
    /\ Small(r.fill_pts - f.fill_pts)

\* C22: a put or a get of a buffer with a pts takes the difference to the
\* last pts of its direction into fill_pts only when, after at most one
\* correction of the wrap, it is no more than MaxDiff either way; if not,
\* fill_pts and pos_pts stay and the last pts is the new one all the same;
\* so one call moves fill_pts by MaxDiff at most
C22_PtsSanity ==
  \A pts \in PtsValues \ {0} : PutSane(fi, pts) /\ GetSane(fi, pts)

\* a put took a difference over the wrap, after a get
C22_Witness ==
  /\ fi.op = "put" /\ fi.how = "wrapped"
  /\ fi.fill_pts > 0
  /\ fi.last_in_pts <= MaxDiff /\ fi.last_out_pts # 0

(***************************************************************************)
(* Properties of the registrations, specification SpecReg.                 *)
(***************************************************************************)
RegCount(c) == SumOver([t \in RegTypes |-> Len(c.lists[t])], RegTypes)

\* C23: whatever was registered, plugin_count is no more than PLUGIN_MAX
\* and decoder_count no more than DECODER_MAX (and they count the nodes of
\* the lists)
C23_Ceilings ==
  /\ rg.plugin_count <= PLUGIN_MAX
  /\ rg.decoder_count <= DECODER_MAX
  /\ rg.plugin_count = RegCount(rg)
  /\ \A t \in RegDecoders : rg.decoder_count >= Len(rg.lists[t])

\* both ceilings are reached and the last call was turned down for it
C23_Witness ==
  /\ rg.plugin_count = PLUGIN_MAX
  /\ rg.decoder_count = DECODER_MAX
  /\ \E k \in 1 .. Len(rg.res) : rg.res[k] = 2

RegLocal(c, infos, node_cache, nomem) ==
  LET r == _register_plugins_internal(c, infos, node_cache, nomem) IN
    /\ Len(r.res) = Len(infos)
    /\ \A k \in 1 .. Len(infos) :
         insert_status(c, infos[k], node_cache, nomem) # 0
           => _insert_node(c, infos[k], node_cache, nomem) = c
    /\ RegCatalog(r) = RegCatalog(_register_plugins_internal(
                          c, Taken(infos, r.res, 1), node_cache, nomem))
    /\ Len(Taken(infos, r.res, 1)) = r.plugin_count - c.plugin_count

\* C24: an entry that _insert_node turns down leaves plugin_count,
\* decoder_count and the lists as they were, and the entries behind it in
\* the same array are still handed to _insert_node: the catalog after the
\* call is the one that the entries taken would have given alone
C24_FailedIsLocal ==
  \A infos \in InfoArrays, node_cache \in BOOLEAN, nomem \in BOOLEAN :
     RegLocal(rg, infos, node_cache, nomem)

\* the decoder ceiling turned the first entry of the last call down and the
\* second entry was registered
C24_Witness ==
  /\ rg.res = <<2, 0>>
  /\ rg.decoder_count = DECODER_MAX
  /\ rg.plugin_count = PLUGIN_MAX

(***************************************************************************)
(* Properties of the user priorities, specification SpecPrio.              *)
(***************************************************************************)
\* the node has the priority of a user priority that is not 0
Overridden(n) ==
  /\ priority[n] # info[n].priority
  /\ \E u \in UserPrios \ {0} : priority[n] = u * 100
UsesDefault(n) == priority[n] = info[n].priority

Before(seq, a, b) ==
  /\ a \in Range(seq) /\ b \in Range(seq)
  /\ IndexOf(seq, a) < IndexOf(seq, b)

Handles(n, t) == t \in Range(info[n].supported_types)

\* n is ahead of m: in the list of their type and in every row of the
\* decoder map of a stream type that both handle
Outranks(n, m) ==
  /\ Before(plugin_lists[info[n].type], n, m)
  /\ \A t \in StreamTypes :
       Handles(n, t) /\ Handles(m, t) =>
         Before(Entries(decoder_map[info[n].type][t]), n, m)

Scaled ==
  /\ \A n \in Nodes : Overridden(n) \/ UsesDefault(n)
  /\ \A n \in Nodes, u \in UserPrios :
       effective_priority(n, u) = (IF u = 0 THEN info[n].priority ELSE u * 100)

SameFingerprint(path) ==
  \E e \in sc.cache_list :
     e.size = sc.disk[path].size /\ e.mtime = sc.disk[path].mtime

\* ... and with its name
SameFile(path) ==
  \E e \in sc.cache_list :
     /\ e.size = sc.disk[path].size /\ e.mtime = sc.disk[path].mtime
     /\ xine_fast_string_cmp(e.path, path) = 0

\* the next file is taken from the cache: it is not opened, its file entry
\* has no handle and the nodes of the cache entry are registered
FastPath(path, nomem) ==
  LET r == collect_file(sc, rg, path, nomem) IN
    /\ path \in r.sc.hits
    /\ r.sc.opened = sc.opened
    /\ \E f \in r.sc.file_list : f.path = path /\ ~f.lib_handle
    /\ \E e \in sc.cache_list \ r.sc.cache_list :
         /\ xine_fast_string_cmp(e.path, path) = 0
         /\ r.rg = _register_plugins_internal(rg, e.infos, TRUE, nomem)

\* the next file is opened and what it holds is registered
SlowPath(path, nomem) ==
  LET r == collect_file(sc, rg, path, nomem) IN
    /\ path \notin r.sc.hits
    /\ path \in r.sc.opened
    /\ r.sc.cache_list = sc.cache_list
    /\ \A f \in r.sc.file_list : f.path = path => f.lib_handle
    /\ r.rg = (IF sc.disk[path].lib = "noopen" THEN rg
               ELSE _register_plugins_internal(
                      rg, xine_plugin_info(sc.disk[path].lib), FALSE, nomem))

Rescanned == sc.phase = "idle" /\ sc.rescan

\* the same number of nodes, the same ids, the same priorities
SameCatalog == rg.lists = sc.prev.lists

\* no file is there twice, and no node more often than its file holds it
NoDuplicates ==
  /\ \A f \in sc.file_list, g \in sc.file_list : f.path = g.path => f = g
  /\ RegCount(rg) = SumOver([path \in Paths |->
         SumOver([f \in sc.file_list |->
                    IF f.path = path THEN Len(f.nodes) ELSE 0], sc.file_list)],
         Paths)

\* C27 as stated: the second scan gives the catalog of the first, and no
\* file is opened
C27_AllFromCache ==
  Rescanned => SameCatalog /\ NoDuplicates /\ sc.opened = {}

\* the catalog of the first scan again; every file that has a node in the
\* catalog comes from the cache, and the files that are opened are the ones
\* that gave no node (no library, only plugins that were turned down);
\* nothing is there twice
FromCache ==
  /\ SameCatalog
  /\ NoDuplicates
  /\ \A f \in sc.file_list : f.nodes # <<>> <=> f.path \in sc.hits
  /\ \A path \in sc.opened :
       \A f \in sc.file_list : f.path = path => f.nodes = <<>>
  /\ sc.cache_list = {}

\* C27: the second scan of a directory that was not changed, with the cache
\* of the first, gives the same number of nodes, the same ids and the same
\* priorities, the files with nodes served from the cache and no plugin
\* registered twice
C27_Idempotent == Rescanned => FromCache

\* the first scan kept every node that it counted: no class failed to load
\* in _load_required_plugins
Unleaked(c) == c.plugin_count = RegCount(c)

\* C27, where it holds: when the first scan lost no node to a failed class,
\* the second scan gives its catalog again, the files with nodes from the
\* cache
C27_Unleaked == Rescanned /\ Unleaked(sc.prev) => FromCache

\* a second scan took two files from the cache, one with two nodes
C27_Witness ==
  /\ Rescanned
  /\ Cardinality(sc.hits) = 2
  /\ rg.plugin_count = PLUGIN_MAX
  /\ rg.decoder_count > 0

(***************************************************************************)
(* The cache file read back.                                               *)
(***************************************************************************)
NodesOf(cat) ==
  UNION {{cat[type][i] : i \in 1 .. Len(cat[type])} : type \in CacheTypes}

\* id, type, api, version and the priority of the type
CatTuples(cat, files) ==
  {<<n.id, n.type, n.API, n.version, n.priority>> :
     n \in {m \in NodesOf(cat) : m.file \in files}}
EntryTuples(e) ==
  {<<e.nodes[i].id, e.nodes[i].type, e.nodes[i].API, e.nodes[i].version,
     cached_priority(e.nodes[i].type, e.nodes[i].ainfo)>> :
     i \in 1 .. Len(e.nodes)}
LoadedTuples(plugins) ==
  UNION {EntryTuples(plugins[i]) : i \in 1 .. Len(plugins)}

\* the nodes of the cache list are those of the files of the catalog, file
\* by file, under the fingerprint of the file
SameByFile(cat, plugins) ==
  /\ \A i \in 1 .. Len(plugins) :
       /\ plugins[i].file.path \in CacheFiles
       /\ plugins[i].file = plugin_file(plugins[i].file.path)
       /\ EntryTuples(plugins[i]) = CatTuples(cat, {plugins[i].file.path})
  /\ \A i \in 1 .. Len(plugins), j \in 1 .. Len(plugins) :
       plugins[i].file = plugins[j].file => i = j
  /\ LoadedTuples(plugins) = CatTuples(cat, CacheFiles)

\* no node of a file has the version 0xffffffff
PlainVersions(cat) ==
  \A n \in NodesOf(cat) : n.file # NoFile => n.version # U32Max

\* two nodes of one file behind each other with the same type, api and
\* version
Delta(cat) ==
  \E type \in CacheTypes : \E i \in 1 .. Len(cat[type]) - 1 :
    /\ cat[type][i].file = cat[type][i + 1].file
    /\ cat[type][i].file # NoFile
    /\ cat[type][i].version = cat[type][i + 1].version

\* a node of another file between two nodes of one file
Apart(cat) ==
  LET order == cat[PLUGIN_INPUT] \o cat[PLUGIN_AUDIO_DECODER]
  IN \E i \in 1 .. Len(order) : \E j \in i + 1 .. Len(order) :
       \E k \in j + 1 .. Len(order) :
         /\ order[i].file = order[k].file /\ order[i].file # NoFile
         /\ order[j].file \in CacheFiles \ {order[i].file}

Reloaded ==
  cf.loaded /\ cf.cache.exists /\ cf.cache.text = save_text(cf.cat)

GoodVersion ==
  /\ cf.cache.exists /\ cf.place = "before"
  /\ cf.vers \in {CACHE_CATALOG_VERSION, CACHE_CATALOG_VERSION - 1}

\* C29: load_plugin_list gives nodes only for a file whose version line
\* stands before the records with the current version or the one before it,
\* and then the nodes of the records; with any other version, or none, the
\* cache list stays empty and no file of the directory is found in it
C29_VersionGate ==
  cf.loaded =>
    /\ cf.cache_list # <<>> => GoodVersion
    /\ GoodVersion /\ PlainVersions(cf.cat) => SameByFile(cf.cat, cf.cache_list)
    /\ ~GoodVersion =>
         /\ cf.cache_list = <<>>
         /\ \A name \in CacheFiles :
              found_file(cf.cache_list, plugin_file(name)) = 0

\* a cache file with records of both files and a version two behind was read
C29_Witness ==
  /\ cf.loaded /\ cf.cache.exists /\ cf.place = "before"
  /\ cf.vers = CACHE_CATALOG_VERSION - 2
  /\ \A name \in CacheFiles : \E n \in NodesOf(cf.cat) : n.file = name
  /\ cf.cache_list = <<>>

(***************************************************************************)
(* The steps of save_catalog.                                              *)
(***************************************************************************)
\* only plugins.cache.new is written while save_catalog runs
OnlyNew == cf.pc # "idle" => cf.cache = cf.prev

\* a save that could not close or rename has removed plugins.cache.new and
\* left plugins.cache as it was
FailedClean ==
  cf.pc = "idle" /\ cf.result = "failed" =>
    ~cf.new.exists /\ cf.cache = cf.prev

\* C30 as stated: the cache file is, at every step, absent or the whole
\* text of the catalog whose save renamed it into place
C30_Atomic ==
  /\ OnlyNew
  /\ FailedClean
  /\ cf.cache.exists => cf.cache.text = save_text(cf.saved_cat)

\* C30 for the saves in which every fwrite succeeded
C30_Unlost ==
  /\ OnlyNew
  /\ FailedClean
  /\ cf.cache.exists /\ ~cf.saved_lost =>
       cf.cache.text = save_text(cf.saved_cat)

\* a save of another catalog failed at fclose or rename and left the cache
\* of the save before it
C30_Witness ==
  /\ cf.pc = "idle" /\ cf.result = "failed"
  /\ cf.cache.exists /\ ~cf.saved_lost
  /\ cf.cat # cf.saved_cat
  /\ CacheCount = MaxSaveNodes

(***************************************************************************)
(* Properties of the controller mutex, specification SpecNbc.              *)
(***************************************************************************)
\* what a callback decides on
Decided == <<nbc.dvbspeed, nbc.buffering, nbc.speed_val, delay.state>>

\* the caller of queue p is inside a callback and this step is not its own
Inside(p) == cbp[p].pc # "idle" /\ cbp'[p].pc = cbp[p].pc

\* C31: the controller mutex is held across the whole of each put/get
\* callback: between the entry of a callback and its return no other thread
\* changes dvbspeed, buffering, speed_val or the state of the delay agent.
C31_Atomic ==
  [][\A p \in Fifos : Inside(p) => Decided' = Decided]_vars

\* a callback is back from the clock and takes the mutex again, and
\* another caller has requested a speed since it left the mutex
C31_Witness ==
  \E p \in Fifos : cbp[p].pc = "ss_relock" /\ cbp[p].stale

(***************************************************************************)
(* Specification SpecOsc: the puts and gets of one live stream, with the   *)
(* delay thread, and the properties of the thresholds.                     *)
(***************************************************************************)
\* BUF_CONTROL_START of a live input
osc_start(type) == ctl.dvbspeed = 0 /\ ctl_start(type, TRUE)

OscNext ==
  \/ \E type \in Types : osc_start(type)
  \/ \E type \in Types, all_fill \in AllFill, used \in Used :
        ctl_put(type, all_fill, used)
  \/ \E type \in Types, all_fill \in AllFill, used \in Used :
        ctl_get(type, all_fill, used)
  \/ ctl_timeout

SpecOsc == NbcSpecInit /\ [][OscNext]_vars

\* the controller as it stands, before a call
Here == [c |-> [ctl EXCEPT !.req = <<>>], s |-> stats]

\* the next call on what a call left
Again(x) == [x EXCEPT !.c.req = <<>>]

\* nbc_put_cb and nbc_get_cb with a media buffer, on x
after_put(x, type, all_fill, used) ==
  {seq_final_speed(y) : y \in seq_dvbspeed_put(x, type, all_fill, used)}
after_get(x, type, all_fill, used) ==
  {seq_final_speed(seq_dvbspeed_get(x, type, all_fill, used))}

\* the call changed the state or requested another speed than the one
\* before
Turned(x, y) ==
  y.c.dvbspeed # x.c.dvbspeed
    \/ \E i \in 1 .. Len(y.c.req) : y.c.req[i] # x.c.speed

\* what the tests of states 1 to 6 compare for a buffer with all_fill: the
\* recent minimum that nbc_stats_add gives back
Compared(x, all_fill) == nbc_stats_add(x.s, all_fill).ret

\* the width that a put leaves when it goes back to NORMAL*
Widened(c, used) ==
  [c EXCEPT !.dvbs_width = IF used < 30 THEN WidthWide ELSE @]

\* no (fill, occupancy) passes the test that leaves NORMAL* and the test
\* that returns to it
Disjoint(c) ==
  \A fill \in AllFill, used \in Used :
    /\ ~(put_full(c, fill, used) /\ get_back(c, fill, used))
    /\ ~(get_low(c, fill, used) /\ put_ready(c, fill, used))
    /\ ~(put_ready(c, fill, used) /\ get_low(Widened(c, used), fill, used))

\* the states 1 to 6
Steering == 1 .. 6

\* C32, as the code has it: in live mode no (recent-minimum fill,
\* occupancy) satisfies both the test that leaves a NORMAL* state and the
\* test that returns to it; after a put or get that moved the controller
\* between NORMAL* and SLOW_FILL* or FAST_DRAIN*, a call of the opposite
\* direction for which the recent-minimum fill and the occupancy are the
\* same changes neither state nor speed.
C32_Hysteresis ==
  ctl.dvbspeed # 0 =>
    /\ Disjoint(ctl)
    /\ \A type \in Types, all_fill \in AllFill, used \in Used :
         (ctl.dvbspeed \in Steering /\ ~not_watched(type, ctl.dvbspeed)) =>
         /\ \A x \in after_put(Here, type, all_fill, used) :
              (x.c.dvbspeed # ctl.dvbspeed /\ x.c.dvbspeed \in Steering)
                => \A other \in AllFill :
                     Compared(x, other) = Compared(Here, all_fill)
                       => \A y \in after_get(Again(x), type, other, used) :
                            ~Turned(x, y)
         /\ \A x \in after_get(Here, type, all_fill, used) :
              (x.c.dvbspeed # ctl.dvbspeed /\ x.c.dvbspeed \in Steering)
                => \A other \in AllFill :
                     Compared(x, other) = Compared(Here, all_fill)
                       => \A y \in after_put(Again(x), type, other, used) :
                            ~Turned(x, y)

\* C32: after a speed change the controller does not change speed again on
\* an event of the opposite direction that observes the same fill and
\* occupancy.
C32_NoOscillation ==
  ctl.dvbspeed # 0 =>
    \A type \in Types, all_fill \in AllFill, used \in Used :
      /\ \A x \in after_put(Here, type, all_fill, used) :
           Turned(Here, x)
             => \A y \in after_get(Again(x), type, all_fill, used) :
                  ~Turned(x, y)
      /\ \A x \in after_get(Here, type, all_fill, used) :
           Turned(Here, x)
             => \A y \in after_put(Again(x), type, all_fill, used) :
                  ~Turned(x, y)

\* a put has taken NORMAL* to FAST_DRAIN* at 100.5%, and a get with what
\* the put saw leaves it there
C32_Witness ==
  /\ ctl.last = "put" /\ ctl.dvbspeed \in {3, 6} /\ ctl.req = <<"fast">>
  /\ \E type \in Types, all_fill \in AllFill, used \in Used :
       /\ put_full(ctl, all_fill, used)
       /\ ~not_watched(type, ctl.dvbspeed)
       /\ \A y \in after_get(Here, type, all_fill, used) : ~Turned(Here, y)

(***************************************************************************)
(* Properties of the life of a plugin class, specification Spec.           *)
(***************************************************************************)
\* the class of a used node is loaded, and the library of its file open
InUse(n) ==
  ref[n] > 0 =>
    /\ plugin_class[n]
    /\ info[n].file # NULL => lib_handle[info[n].file]

\* a step takes the class of n away
Disposes(n) == plugin_class[n] /\ ~plugin_class'[n]

\* the nodes stay: their info and the lists that hold them
NodesStay ==
  /\ info' = info
  /\ \A kind \in Kinds :
       Range(plugin_lists'[kind]) = Range(plugin_lists[kind])

\* C33: in every reachable state a node with ref > 0 has its plugin_class
\* loaded and, if it has a file, the file's library handle; a step disposes
\* a node's class only when the node's ref is 0; no step before the
\* teardown of the catalog takes a node away.
C33_Lifecycle ==
  /\ [](\A n \in Nodes : InUse(n))
  /\ [][\A n \in Nodes : Disposes(n) => ref[n] = 0]_vars
  /\ [][NodesStay]_vars

\* the collector has disposed the class that a failed open_plugin had left
\* loaded, and has left the class of a node that is in use
C33_Witness ==
  /\ last.op = "none"
  /\ \E p \in failed : ~plugin_class[p[2]] /\ ref[p[2]] = 0
  /\ \E n \in Nodes : ref[n] > 0 /\ plugin_class[n]

(***************************************************************************)
(* Properties of the cache parser, specification SpecParse.                *)
(***************************************************************************)
\* the nodes of a cache list
RECURSIVE NodeCount(_)
NodeCount(plugins) ==
  IF plugins = <<>> THEN 0
  ELSE Len(Head(plugins).nodes) + NodeCount(Tail(plugins))

\* the node that was chained last
LastNode(l) ==
  l.plugins[l.first_in_file].nodes[Len(l.plugins[l.first_in_file].nodes)]

\* the lines of the block in every order leave what the order read has left
\* at the empty line
AnyOrder ==
  \A order \in Perms(Range(pr.block)) :
    load_lines(pr.start, order \o <<EmptyLine>>) = load_line(pr.l, EmptyLine)

\* no two lines of the block write the same word of the union
OneMember ==
  \A i, j \in 1 .. Len(pr.block) :
    (pr.block[i].key \in FirstWord /\ pr.block[j].key \in FirstWord) => i = j

\* what an empty line has done
Flushed ==
  pr.made # "none" /\ pr.block = <<>> =>
    IF pr.before.id # NoId
    THEN /\ pr.made = "node"
         /\ NodeCount(pr.l.plugins) = NodeCount(pr.before.plugins) + 1
         /\ LastNode(pr.l).id = pr.before.id
         /\ LastNode(pr.l).type = pr.before.type
         /\ LastNode(pr.l).version = pr.before.version
         /\ LastNode(pr.l).supported_types = pr.before.supported_types
         /\ LastNode(pr.l).ainfo = pr.before.ainfo
         /\ LastNode(pr.l).config_keys = pr.before.cfgentries
         /\ pr.l.id = NoId
         /\ pr.l.supported_types = <<>>
         /\ pr.l.ainfo = NoAinfo
         /\ pr.l.cfgentries = <<>>
         /\ pr.l.type = pr.before.type
         /\ pr.l.version = pr.before.version
         /\ pr.l.filesize = pr.before.filesize
    ELSE pr.made = "nothing" /\ pr.l = pr.before

InSetSpeed ==
  \/ \E p \in Fifos : cbp[p].pc \in {"ss_apply", "ss_relock"}
  \/ \E t \in ThreadIds : thr[t].pc \in {"ss_apply", "ss_relock"}

\* C35: for any interleaving of concurrent nbc_set_speed calls (callbacks
\* of both queues, delay thread), once every call has returned the speed in
\* effect at the clock is the speed_val requested last.
C35_LatestWins == ~InSetSpeed => clock = nbc.speed_val

\* the callbacks of both queues are running, a speed other than the one of
\* xine_nbc_init has been requested, and every call has returned
C35_Witness ==
  /\ ~InSetSpeed
  /\ clock = nbc.speed_val
  /\ clock # "normal"
  /\ \A p \in Fifos : cbp[p].pc # "idle"

(***************************************************************************)
(* The timeout of the delay thread, specification SpecOsc.                 *)
(***************************************************************************)
\* C36: whenever the timeout of the delay thread fires and requests normal
\* speed, dvbspeed is 1 or 4: the agent does not unpause a controller that
\* is back in state 7 and does not override the speed of states 2, 3, 5, 6.
C36_WaitingOnly == ctl.last = "timeout" => ctl.dvbspeed \in {1, 4}

\* the timeout has set normal speed on a controller that a get had sent
\* back to prebuffering
C36_Witness ==
  /\ ctl.last = "timeout"
  /\ ctl.dvbspeed = 7
  /\ ctl.speed = "normal"

(***************************************************************************)
(* The joins of the delay thread, specification SpecNbc.                   *)
(***************************************************************************)
\* two callers are inside pthread_join with the same handle
SameJoin ==
  \E p, q \in Fifos :
    /\ p # q
    /\ cbp[p].pc = "joining" /\ cbp[q].pc = "joining"
    /\ cbp[p].jt = cbp[q].jt

\* C37: under any interleaving of nbc_delay_set, nbc_delay_clean and
\* nbc_delay_stop on different queues no thread handle is joined twice, and
\* no new thread is created while the previous one is still unjoined.
C37_JoinedOnce ==
  /\ ~nh.bad_join
  /\ ~SameJoin
  /\ Cardinality(Threads) <= 1

\* pthread_join was called with the handle of a thread that another caller
\* had joined
C37_Witness == nh.bad_join

(***************************************************************************)
(* The delay thread at xine_nbc_close, specification SpecNbcClose.         *)
(***************************************************************************)
\* C38: when xine_nbc_close has freed the controller the delay agent is OFF
\* and no delay thread is running or unjoined, and no thread touches the
\* mutex or the fields of the controller after the free.
C38_NoThreadAtFree ==
  /\ nbc.life = "freed" => delay.state = "OFF" /\ Threads = {}
  /\ ~nh.uaf

\* the delay thread has come back from its wait to a controller that is
\* freed
C38_Witness ==
  /\ nbc.life = "freed"
  /\ nh.uaf

(***************************************************************************)
(* The controller that a consumer is handed, specification SpecLife.       *)
(***************************************************************************)
\* the consumers that hold a controller they did not create themselves or
\* have finished creating
Holders ==
  {c \in Consumers : lc.con[c].nbc # NULL /\ lc.con[c].pc = "idle"}

\* C39: a controller pointer obtained through the stream's counter refers
\* to a controller whose mutex is initialised and whose fields are set up,
\* under any interleaving with the xine_nbc_init call that creates it.
C39_Published ==
  \A c \in Holders : lc.ctl[lc.con[c].nbc].st # "alloc"

\* a second xine_nbc_init has returned the controller that the first one
\* has allocated and not yet set up
C39_Witness ==
  \E c, d \in Consumers :
    /\ c \in Holders
    /\ lc.con[d].pc = "setup"
    /\ lc.con[d].nbc = lc.con[c].nbc
    /\ lc.ctl[lc.con[c].nbc].st = "alloc"

(***************************************************************************)
(* Specification SpecFull: a stream, live or not, whose queues run full:   *)
(* the callbacks one after the other, the alloc callback among them.       *)
(***************************************************************************)
\* what nbc_compute_fifo_length and the queues give a put or get of a stream
\* that is not live: a queue empty or above the high water mark, with
\* FULL_FIFO_MARK free buffers or one more
FullLengths == {0, HighWaterMark + 1}
FullComputed ==
  [has_video : BOOLEAN, has_audio : BOOLEAN,
   vlen : FullLengths, alen : FullLengths,
   vfill : {0}, afill : {0, 40},
   vfree : FifoFrees, afree : FifoFrees]

FullNext ==
  \/ \E type \in Types : osc_start(type)
  \/ \E type \in Types : ctl_vod_start(type)
  \/ \E type \in Types, all_fill \in AllFill, used \in Used :
        ctl_put(type, all_fill, used)
  \/ \E type \in Types, all_fill \in AllFill, used \in Used :
        ctl_get(type, all_fill, used)
  \/ \E type \in Types, f \in FullComputed : ctl_vod_put(type, f)
  \/ \E type \in Types, f \in FullComputed : ctl_vod_get(type, f)
  \/ \E type \in Types : ctl_alloc(type)
  \/ ctl_timeout

SpecFull == NbcSpecInit /\ [][FullNext]_vars

\* nbc_alloc_cb has found at most FULL_FIFO_MARK free buffers and the
\* controller enabled
AllocSeen == ctl.last = "alloc" /\ ctl.enabled

VodEscaped ==
  ctl.dvbspeed = 0 =>
    ~ctl.buffering /\ ctl.speed = "normal" /\ ctl.progress = 100

LiveEscaped ==
  ctl.dvbspeed # 0 => ctl.dvbspeed \in {3, 6} /\ ctl.speed = "fast"

\* nbc_get_cb starts buffering
StartsBuffering == ~ctl.buffering /\ ctl'.buffering /\ ctl'.last = "get"

\* C40: after an alloc callback that observes at most FULL_FIFO_MARK free
\* buffers on an enabled controller, in VOD mode buffering is 0 with normal
\* speed requested and progress 100, in live mode the state is 3 or 6 with
\* 100.5% requested; and the get callback does not start VOD buffering while
\* either queue has at most FULL_FIFO_MARK free buffers.
C40_FullQueueEscape ==
  /\ [](AllocSeen => VodEscaped /\ LiveEscaped)
  /\ [][StartsBuffering =>
          \A type \in Types, f \in FullComputed :
            ctl_vod_get(type, f) =>
              f.vfree > FULL_FIFO_MARK /\ f.afree > FULL_FIFO_MARK]_vars

\* the alloc callback finds state 3 or 6 with the speed that the timeout of
\* the delay thread has set, and leaves it
C40_Witness ==
  /\ AllocSeen
  /\ ctl.dvbspeed \in {3, 6}
  /\ ctl.speed = "normal"

====
